---- MODULE Spec2Model ----
(***************************************************************************)
(* Asset hot-reload registries (ShaderAssets, MeshAssets, TextureAssets),  *)
(* the four-worker background pool, the model Bundle and the per-frame     *)
(* batch engine (Batches) of wgpu_lua_fun.                                 *)
(*                                                                         *)
(* Time is counted in milliseconds.  An Option<T> is a sequence of length  *)
(* at most one: None is << >> and Some(x) is << x >>.                      *)
(***************************************************************************)
EXTENDS Integers, Sequences, FiniteSets, TLC

\* ------------------------------------------------------------------ bounds
MaxEdits == 2        \* file changes the environment makes in one run
MaxInFlight == 2     \* the script stops calling load above this backlog
MaxTime == 400       \* the clock stops here
TickMs == 100        \* granularity of the clock
MaxAdds == 2         \* batch_model calls of the script in one frame
MaxColor == 2        \* colours a caller writes into a material: 0..MaxColor
MaxEvents == 3       \* events waiting in the queues of Inputs

\* --------------------------------------------------------------- constants
RELOAD_DEBOUNCE == 200
POOL_SIZE == 4

DEFAULT_SHADER == "model"
DEFAULT_TEXTURE == "white"
DEFAULT_MATERIAL == "model"
\* the mesh id the script passes to load_mesh and batch_model in the runs
\* where the texture files change
SCENE_MESH == "model"

Regs == {"shader", "mesh", "texture"}
\* The asset ids (and material keys) the script uses.
Ids == {"model", "white"}

None == << >>
Some(x) == << x >>
IsSome(o) == Len(o) = 1
Unwrap(o) == o[1]

\* What a file can hold.  "undecodable" is rejected by the asset's Loader
\* (missing file, non UTF-8 text, broken image); "unparsable" is text that
\* the cache accepts and the OBJ parser of the mesh job rejects;
\* "incomplete" is OBJ text the parser accepts whose geometry has no
\* normals or no texture coordinates.
Kinds(r) == IF r = "mesh"
            THEN {"ok", "undecodable", "unparsable", "incomplete"}
            ELSE {"ok", "undecodable"}

VARIABLES
    active,          \* registries exercised in this run (never changes)
    now,             \* Instant::now()
    edits,           \* file changes so far (also the version written)
    disk,            \* disk[r][id]: content of the backing file
    cache,           \* cache[r][id]: AssetCache entry (asset, pending, reloaded)
    pool,            \* jobs handed to get_pool(), oldest first
    load_rx,         \* load_rx[r]: results sent and not yet received
    loaded,          \* loaded[r]: HashSet of ShaderAssets / MeshAssets
    objs,            \* objs[r][id]: modules / meshes / textures map
    last_reload,     \* last_reload[r]
    frame_reloaded,  \* ShaderAssets.frame_reloaded
    requested,       \* requested[r]: ids load was ever called for (history)
    pc,              \* position of App::update in the frame
    materials,       \* MaterialManager.materials
    registered_shaders,  \* Bundle.registered_shaders
    pipelines,       \* Bundle.pipelines
    mat_data,        \* Batches.materials: the cached MaterialData per material
    instances,       \* Batches.instances: Key -> InstanceArray
    draws,           \* draw calls recorded in the frame's render pass
    uniform_writes,  \* queue.write_buffer calls of the frame's prepare
    batched,         \* batch_model calls of the frame, per key (history)
    drawn_before,    \* keys drawn in an earlier frame (history)
    scripts,         \* scripts[id]: content of the script file
    lua,             \* LuaState
    device,          \* keys and buttons held down, focus of the window
    inputs           \* Inputs

assetVars == << now, edits, disk, cache, pool, load_rx, loaded, objs,
                last_reload, frame_reloaded, requested >>
frameVars == << pc, materials, registered_shaders, pipelines, mat_data,
                instances, draws, uniform_writes, batched, drawn_before >>
hostVars == << scripts, lua, device, inputs >>
vars == << active, assetVars, frameVars, hostVars >>

\* ---------------------------------------------------------- content cache
\* AssetCache::contains
contains(r, id) == IsSome(cache[r][id].asset)

\* AssetCache::hot_reload: applies the updates the watcher has queued and
\* marks the updated handles as reloaded.
cache_hot_reload(c) ==
    [id \in Ids |->
        IF IsSome(c[id].pending)
        THEN [asset |-> c[id].pending, pending |-> None, reloaded |-> TRUE]
        ELSE c[id]]

\* AssetCache::load as run by a job: the cached asset if there is one, else
\* the file is read and decoded, and cached when that succeeds.
cache_load(r, id) ==
    IF IsSome(cache[r][id].asset) THEN cache[r][id].asset
    ELSE IF disk[r][id].kind = "undecodable" THEN None
    ELSE Some(disk[r][id])

cache_after_load(r, id) ==
    IF IsSome(cache[r][id].asset) \/ disk[r][id].kind = "undecodable"
    THEN cache[r]
    ELSE [cache[r] EXCEPT ![id].asset = Some(disk[r][id])]

\* ---------------------------------------------------------------- history
InPool(r, id) == {i \in 1..Len(pool) : pool[i].reg = r /\ pool[i].id = id}
InChannel(r, id) == {i \in 1..Len(load_rx[r]) : load_rx[r][i].id = id}
\* jobs of id submitted and not yet drained by hot_reload
InFlight(r, id) == Cardinality(InPool(r, id)) + Cardinality(InChannel(r, id))

\* -------------------------------------------------------------- registries
\* ShaderAssets::get / MeshAssets::get / TextureAssets::get
get(r, id) == objs[r][id]

\* load_internal: the job handed to the pool, a closure over the id and the
\* sending half of r's channel; got is its local `result`, not computed yet.
load_internal(r, id) == [reg |-> r, id |-> id, got |-> None]

\* Variant of load_guard: every registry asks the content cache, as
\* TextureAssets does.
load_guard_cache(r, id) == contains(r, id)

\* The guard of load: the `loaded` set for shaders and meshes, the content
\* cache for textures.
load_guard(r, id) ==
    IF r = "texture" THEN contains(r, id) ELSE id \in loaded[r]

\* ShaderAssets::load / MeshAssets::load / TextureAssets::load
load_loaded(r, id) ==
    IF load_guard(r, id) \/ r = "texture" THEN loaded[r]
    ELSE loaded[r] \cup {id}

\* Variant of load_jobs: a first load of one id prefetches the other ids of
\* the registry as well.
load_jobs_prefetch(r, id) ==
    IF load_guard(r, id) THEN << >>
    ELSE << load_internal(r, id) >>
         \o (IF id = DEFAULT_SHADER THEN << load_internal(r, DEFAULT_TEXTURE) >>
                                    ELSE << load_internal(r, DEFAULT_SHADER) >>)

load_jobs(r, id) ==
    IF load_guard(r, id) THEN << >> ELSE << load_internal(r, id) >>

Load(r, id) ==
    /\ r \in active
    /\ Len(pool) + Len(load_rx[r]) < MaxInFlight
    /\ loaded' = [loaded EXCEPT ![r] = load_loaded(r, id)]
    /\ pool' = pool \o load_jobs(r, id)
    /\ requested' = [requested EXCEPT ![r] = @ \cup {id}]
    /\ UNCHANGED << active, hostVars, now, edits, disk, cache, load_rx, objs,
                    last_reload, frame_reloaded, frameVars >>

\* Variant of poll_keys: the reloaded flag of the handle is read without
\* being consumed.
RECURSIVE poll_keys_peek(_, _, _)
poll_keys_peek(r, order, st) ==
    IF order = << >> THEN st
    ELSE LET id == Head(order)
             hit == /\ now - st.last >= RELOAD_DEBOUNCE
                    /\ st.cache[id].reloaded
             next == IF hit
                     THEN [cache |-> st.cache,
                           last |-> now,
                           jobs |-> Append(st.jobs, load_internal(r, id))]
                     ELSE st
         IN poll_keys_peek(r, Tail(order), next)

\* Variant of poll_keys: an accepted reload does not restart the debounce
\* window (`self.last_reload = Instant::now()` is left out).
RECURSIVE poll_keys_no_stamp(_, _, _)
poll_keys_no_stamp(r, order, st) ==
    IF order = << >> THEN st
    ELSE LET id == Head(order)
             hit == /\ now - st.last >= RELOAD_DEBOUNCE
                    /\ st.cache[id].reloaded
             next == IF hit
                     THEN [cache |-> [st.cache EXCEPT ![id].reloaded = FALSE],
                           last |-> st.last,
                           jobs |-> Append(st.jobs, load_internal(r, id))]
                     ELSE st
         IN poll_keys_no_stamp(r, Tail(order), next)

\* Variant of poll_keys: `handle.reloaded_global() && elapsed >= DEBOUNCE`,
\* the flag of the handle is consumed before the window is looked at.
RECURSIVE poll_keys_flag_first(_, _, _)
poll_keys_flag_first(r, order, st) ==
    IF order = << >> THEN st
    ELSE LET id == Head(order)
             hit == /\ now - st.last >= RELOAD_DEBOUNCE
                    /\ st.cache[id].reloaded
             seen == [st.cache EXCEPT ![id].reloaded = FALSE]
             next == IF hit
                     THEN [cache |-> seen,
                           last |-> now,
                           jobs |-> Append(st.jobs, load_internal(r, id))]
                     ELSE [st EXCEPT !.cache = seen]
         IN poll_keys_flag_first(r, Tail(order), next)

\* The polling loop of hot_reload over the keys of the object map, in the
\* order the HashMap iterates them.  st = [cache, last, jobs].
RECURSIVE poll_keys(_, _, _)
poll_keys(r, order, st) ==
    IF order = << >> THEN st
    ELSE LET id == Head(order)
             hit == /\ now - st.last >= RELOAD_DEBOUNCE
                    /\ st.cache[id].reloaded
             next == IF hit
                     THEN [cache |-> [st.cache EXCEPT ![id].reloaded = FALSE],
                           last |-> now,
                           jobs |-> Append(st.jobs, load_internal(r, id))]
                     ELSE st
         IN poll_keys(r, Tail(order), next)

\* The orders in which a HashMap may iterate the keys S.
Orders(S) ==
    {o \in [1..Cardinality(S) -> S] : \A i, j \in DOMAIN o : i # j => o[i] # o[j]}

\* The GPU object built from a decoded source (create_shader_module,
\* Mesh::new, Texture::from_image).  Every call builds a new object: gen
\* tells the successive objects of one id apart.
create(old, src) ==
    [gen |-> IF IsSome(old) THEN Unwrap(old).gen + 1 ELSE 1, src |-> src]

\* The receiving half of hot_reload: what try_recv returns is applied.
\* st = [load_rx, objs, frame_reloaded, loaded].
recv_one(r, st) ==
    LET msg == Head(st.load_rx) IN
    IF st.load_rx = << >> THEN st
    ELSE [load_rx |-> Tail(st.load_rx),
          objs |-> IF msg.ok
                   THEN [st.objs EXCEPT ![msg.id] = Some(create(@, msg.src))]
                   ELSE st.objs,
          frame_reloaded |-> IF msg.ok THEN Some(msg.id)
                             ELSE st.frame_reloaded,
          loaded |-> IF ~msg.ok /\ r # "texture"
                     THEN st.loaded \ {msg.id}
                     ELSE st.loaded]

\* Variant of recv_one: `while let` instead of `if let`, the channel is
\* drained until it is empty.
RECURSIVE recv_all(_, _)
recv_all(r, st) ==
    IF st.load_rx = << >> THEN st ELSE recv_all(r, recv_one(r, st))

\* Variant of recv_one: an error leaves the id in `loaded`, as in
\* TextureAssets, which has no such set.
recv_keep_loaded(r, st) ==
    [recv_one(r, st) EXCEPT !.loaded = st.loaded]

\* Variant of recv_one: an error installs a placeholder object for the id.
recv_placeholder(r, st) ==
    LET msg == Head(st.load_rx) IN
    IF st.load_rx # << >> /\ ~msg.ok
    THEN [recv_one(r, st) EXCEPT !.objs[msg.id] = Some(create(@, 0))]
    ELSE recv_one(r, st)

\* Variant of recv_one: a result whose content is older than the content of
\* the id's object is dropped, as if completions carried a generation.
recv_newest(r, st) ==
    LET msg == Head(st.load_rx) IN
    IF /\ st.load_rx # << >>
       /\ msg.ok
       /\ IsSome(st.objs[msg.id])
       /\ msg.src < Unwrap(st.objs[msg.id]).src
    THEN [st EXCEPT !.load_rx = Tail(st.load_rx)]
    ELSE recv_one(r, st)

\* Variant of recv_one: a successful result replaces the whole map by a
\* map holding the new object only.
recv_reset(r, st) ==
    LET msg == Head(st.load_rx) IN
    IF st.load_rx # << >> /\ msg.ok
    THEN [recv_one(r, st) EXCEPT !.objs =
             [id \in Ids |-> IF id = msg.id THEN recv_one(r, st).objs[id]
                                            ELSE None]]
    ELSE recv_one(r, st)

\* Variant of recv_one: an error removes the object of the id along with
\* its entry in `loaded`.
recv_drop_on_error(r, st) ==
    LET msg == Head(st.load_rx) IN
    IF st.load_rx # << >> /\ ~msg.ok
    THEN [recv_one(r, st) EXCEPT !.objs[msg.id] = None]
    ELSE recv_one(r, st)

\* Variant of recv_one: a successful result installs the object and leaves
\* frame_reloaded as the call found it.
recv_no_signal(r, st) ==
    [recv_one(r, st) EXCEPT !.frame_reloaded = st.frame_reloaded]

\* if let Ok(..) = self.load_rx.try_recv() { match result { .. } }
recv(r, st) == recv_one(r, st)

\* Variant of hot_reload: frame_reloaded is not reset at the start of the
\* call, a signal stays until the next successful result replaces it.
hot_reload_sticky(r, order) ==
    LET polled == poll_keys(r, order,
                      [cache |-> cache_hot_reload(cache[r]),
                       last |-> last_reload[r],
                       jobs |-> << >>])
        got == recv(r, [load_rx |-> load_rx[r], objs |-> objs[r],
                        frame_reloaded |-> frame_reloaded,
                        loaded |-> loaded[r]])
    IN  [cache |-> polled.cache,
         last_reload |-> polled.last,
         jobs |-> polled.jobs,
         load_rx |-> got.load_rx,
         objs |-> got.objs,
         frame_reloaded |-> got.frame_reloaded,
         loaded |-> got.loaded]

\* The result of one hot_reload call of registry r, its map iterated in order.
hot_reload(r, order) ==
    LET polled == poll_keys(r, order,
                      [cache |-> cache_hot_reload(cache[r]),
                       last |-> last_reload[r],
                       jobs |-> << >>])
        got == recv(r, [load_rx |-> load_rx[r], objs |-> objs[r],
                        frame_reloaded |-> None, loaded |-> loaded[r]])
    IN  [cache |-> polled.cache,
         last_reload |-> polled.last,
         jobs |-> polled.jobs,
         load_rx |-> got.load_rx,
         objs |-> got.objs,
         frame_reloaded |-> got.frame_reloaded,
         loaded |-> got.loaded]

\* Variant of Keys: the loop polls every id the cache holds a handle of.
Keys_cached(r) == {id \in Ids : contains(r, id)}

\* self.modules.keys() / self.meshes.keys() / self.textures.keys()
Keys(r) == {id \in Ids : IsSome(objs[r][id])}

\* One call of ShaderAssets::hot_reload, MeshAssets::hot_reload or
\* TextureAssets::hot_reload.
HotReload(r) ==
    /\ r \in active
    /\ \E order \in Orders(Keys(r)) :
        LET h == hot_reload(r, order) IN
        /\ cache' = [cache EXCEPT ![r] = h.cache]
        /\ last_reload' = [last_reload EXCEPT ![r] = h.last_reload]
        /\ pool' = pool \o h.jobs
        /\ load_rx' = [load_rx EXCEPT ![r] = h.load_rx]
        /\ objs' = [objs EXCEPT ![r] = h.objs]
        /\ loaded' = [loaded EXCEPT ![r] = h.loaded]
        /\ frame_reloaded' = IF r = "shader" THEN h.frame_reloaded
                             ELSE frame_reloaded
    /\ UNCHANGED << active, hostVars, now, edits, disk, requested, frameVars >>

\* ------------------------------------------------------------ worker pool
\* The message a job sends.  A texture error carries no id: the id field of
\* such a message is history only and TextureAssets::hot_reload never reads
\* it.
job_result(r, id) ==
    LET got == cache_load(r, id)
        ok == IsSome(got) /\ (r = "mesh" => Unwrap(got).kind = "ok")
    IN  [id |-> id, ok |-> ok, src |-> IF ok THEN Unwrap(got).ver ELSE 0]

\* The job's closure panics before it sends: the mesh job indexes
\* m.mesh.texcoords and m.mesh.normals for every position, out of bounds
\* when the geometry has none.  The pool replaces the worker thread and
\* nothing is sent.
job_panics(r, id) ==
    /\ r = "mesh"
    /\ IsSome(cache_load(r, id))
    /\ Unwrap(cache_load(r, id)).kind = "incomplete"

RemoveAt(s, i) == SubSeq(s, 1, i - 1) \o SubSeq(s, i + 1, Len(s))

Min(a, b) == IF a < b THEN a ELSE b

\* Variant of WorkerStep: the job shares the registry's `loaded` set and
\* removes its id itself when its result is an error.
WorkerStep_unload ==
    \E i \in 1..Min(POOL_SIZE, Len(pool)) :
        LET job == pool[i]
            res == job_result(job.reg, job.id) IN
        /\ load_rx' = IF job_panics(job.reg, job.id) THEN load_rx
                      ELSE [load_rx EXCEPT ![job.reg] = Append(@, res)]
        /\ cache' = [cache EXCEPT ![job.reg] = cache_after_load(job.reg, job.id)]
        /\ pool' = RemoveAt(pool, i)
        /\ loaded' = IF res.ok THEN loaded
                     ELSE [loaded EXCEPT ![job.reg] = @ \ {job.id}]
        /\ UNCHANGED << active, hostVars, now, edits, disk, objs, last_reload,
                        frame_reloaded, requested, frameVars >>

\* One of the jobs a worker is running completes: it reads the cache and
\* sends its result.
WorkerStep ==
    \E i \in 1..Min(POOL_SIZE, Len(pool)) :
        LET job == pool[i] IN
        /\ load_rx' = IF job_panics(job.reg, job.id) THEN load_rx
                      ELSE [load_rx EXCEPT ![job.reg] =
                              Append(@, job_result(job.reg, job.id))]
        /\ cache' = [cache EXCEPT ![job.reg] = cache_after_load(job.reg, job.id)]
        /\ pool' = RemoveAt(pool, i)
        /\ UNCHANGED << active, hostVars, now, edits, disk, loaded, objs, last_reload,
                        frame_reloaded, requested, frameVars >>

\* ------------------------------------------------------------ environment
\* The file of id is rewritten; the watcher of the cache decodes it and
\* queues the update when the asset is cached and the new content decodes.
FileChange(r, id, kind) ==
    /\ r \in active
    /\ edits < MaxEdits
    /\ kind \in Kinds(r)
    /\ edits' = edits + 1
    /\ disk' = [disk EXCEPT ![r][id] = [ver |-> edits + 1, kind |-> kind]]
    /\ cache' = IF contains(r, id) /\ kind # "undecodable"
                THEN [cache EXCEPT ![r][id].pending =
                         Some([ver |-> edits + 1, kind |-> kind])]
                ELSE cache
    /\ UNCHANGED << active, hostVars, now, pool, load_rx, loaded, objs, last_reload,
                    frame_reloaded, requested, frameVars >>

Tick ==
    /\ now + TickMs <= MaxTime
    /\ now' = now + TickMs
    /\ UNCHANGED << active, hostVars, edits, disk, cache, pool, load_rx, loaded, objs,
                    last_reload, frame_reloaded, requested, frameVars >>

\* ------------------------------------------------------- MaterialManager
\* MaterialManager::get_shader_id
get_shader_id(key) ==
    IF IsSome(materials[key]) THEN Some(Unwrap(materials[key]).shader_id)
    ELSE None

\* MaterialManager::get_texture_id
get_texture_id(key) ==
    IF IsSome(materials[key]) THEN Some(Unwrap(materials[key]).texture_id)
    ELSE None

\* encase::UniformBuffer::write of a Uniform { color: Vec3 }: the words of
\* the colour, least significant byte first, padded with zeros to the size
\* of the struct.  The model keeps one word for the colour.
UNIFORM_SIZE == 16
WORD == 4
BYTE == 256

write(uniform) ==
    [i \in 1..UNIFORM_SIZE |->
        IF i <= WORD THEN (uniform.color \div (BYTE ^ (i - 1))) % BYTE ELSE 0]

\* MaterialManager::get_uniform_data_bytes
get_uniform_data_bytes(key) ==
    IF IsSome(materials[key])
    THEN Some(write(Unwrap(materials[key]).uniform))
    ELSE None

\* MaterialManager::get_any
get_any(key) == materials[key]

\* MaterialManager::get_mut_any: the material the caller may write through
get_mut_any(key) == materials[key]

\* SimpleMaterial::new; colour 0 stands for Vec3::new(1.0, 0.2, 0.3)
SimpleMaterial(shader_id, texture_id) ==
    [shader_id |-> shader_id, texture_id |-> texture_id,
     uniform |-> [color |-> 0]]

\* Variant of add: under a key in use the stored material takes the ids of
\* the new one and keeps the uniform it has.
add_keep_uniform(key, material) ==
    IF IsSome(materials[key])
    THEN [materials EXCEPT ![key] =
             Some([material EXCEPT !.uniform = Unwrap(materials[key]).uniform])]
    ELSE [materials EXCEPT ![key] = Some(material)]

\* MaterialManager::add: self.materials.insert(key, InternalMaterial::new(..))
add(key, material) == [materials EXCEPT ![key] = Some(material)]

\* ----------------------------------------------------------------- Bundle
\* Variant of bundle_hot_reload: `entry(id).or_insert_with(..)` for `insert`,
\* a pipeline is built only for an id that has none.
bundle_hot_reload_once(signal, modules) ==
    IF /\ IsSome(signal)
       /\ Unwrap(signal) \in registered_shaders
       /\ ~IsSome(pipelines[Unwrap(signal)])
    THEN [pipelines EXCEPT ![Unwrap(signal)] =
             Some([module |-> Unwrap(modules[Unwrap(signal)])])]
    ELSE pipelines

\* Variant of bundle_hot_reload: the registered_shaders test is left out.
bundle_hot_reload_any(signal, modules) ==
    IF IsSome(signal)
    THEN [pipelines EXCEPT ![Unwrap(signal)] =
             Some([module |-> Unwrap(modules[Unwrap(signal)])])]
    ELSE pipelines

\* Variant of bundle_hot_reload: the pipeline is built from the module the
\* registry held before this tick, when it held one.
bundle_hot_reload_stale(signal, modules) ==
    IF IsSome(signal) /\ Unwrap(signal) \in registered_shaders
    THEN [pipelines EXCEPT ![Unwrap(signal)] =
             Some([module |->
                     IF IsSome(get("shader", Unwrap(signal)))
                     THEN Unwrap(get("shader", Unwrap(signal)))
                     ELSE Unwrap(modules[Unwrap(signal)])])]
    ELSE pipelines

\* Bundle::hot_reload, given the signal and the modules left by
\* ShaderAssets::hot_reload.
bundle_hot_reload(signal, modules) ==
    IF IsSome(signal) /\ Unwrap(signal) \in registered_shaders
    THEN [pipelines EXCEPT ![Unwrap(signal)] =
             Some([module |-> Unwrap(modules[Unwrap(signal)])])]
    ELSE pipelines

\* ---------------------------------------------------------------- Batches
KeySet == [mesh_id : Ids, material_id : Ids]
InstVals == {"p", "q"}
NoInstances == [k \in {} |-> None]

\* instances added in the frame so far
RECURSIVE Added(_)
Added(S) ==
    IF S = {} THEN 0
    ELSE LET k == CHOOSE x \in S : TRUE
         IN Len(instances[k].data) + Added(S \ {k})

\* Variant of add_model: an instance equal to one the key already holds is
\* not added again.
add_model_dedup(mesh_id, material_id, instance) ==
    LET key == [mesh_id |-> mesh_id, material_id |-> material_id]
    IN  IF key \in DOMAIN instances
        THEN IF \E i \in DOMAIN instances[key].data :
                    instances[key].data[i] = instance
             THEN instances
             ELSE [instances EXCEPT ![key].data = Append(@, instance)]
        ELSE (key :> [buffer |-> None, data |-> << instance >>]) @@ instances

\* Batches::add_model
add_model(mesh_id, material_id, instance) ==
    LET key == [mesh_id |-> mesh_id, material_id |-> material_id]
    IN  IF key \in DOMAIN instances
        THEN [instances EXCEPT ![key].data = Append(@, instance)]
        ELSE (key :> [buffer |-> None, data |-> << instance >>]) @@ instances

\* Variant of material_entry: an occupied entry is rebuilt from the texture
\* the registry holds now.
material_entry_rebuild(m, texture, uniform_data, st) ==
    [st EXCEPT
        !.mat_data[m] = Some([bind_group |-> [uniform_of |-> m,
                                              texture |-> texture],
                              buffer |-> uniform_data]),
        !.writes[m] = IF IsSome(st.mat_data[m]) THEN @ + 1 ELSE @]

\* Variant of material_entry: the buffer of an occupied entry is written
\* only when the uniform bytes differ from the bytes it holds.
material_entry_if_changed(m, texture, uniform_data, st) ==
    IF IsSome(st.mat_data[m])
    THEN IF Unwrap(st.mat_data[m]).buffer = uniform_data THEN st
         ELSE [st EXCEPT !.mat_data[m] =
                            Some([Unwrap(@) EXCEPT !.buffer = uniform_data]),
                         !.writes[m] = @ + 1]
    ELSE [st EXCEPT !.mat_data[m] =
                       Some([bind_group |-> [uniform_of |-> m,
                                             texture |-> texture],
                             buffer |-> uniform_data])]

\* match self.materials.entry(material_id): an occupied entry has the
\* uniform bytes written into its buffer, a vacant one gets a new buffer
\* and a bind group of that buffer and the texture.
material_entry(m, texture, uniform_data, st) ==
    IF IsSome(st.mat_data[m])
    THEN [st EXCEPT !.mat_data[m] =
                       Some([Unwrap(@) EXCEPT !.buffer = uniform_data]),
                    !.writes[m] = @ + 1]
    ELSE [st EXCEPT !.mat_data[m] =
                       Some([bind_group |-> [uniform_of |-> m,
                                             texture |-> texture],
                             buffer |-> uniform_data])]

\* The loop of Batches::prepare over the keys in iteration order.
\* st = [instances, mat_data, writes]; an unknown material returns from
\* prepare.
RECURSIVE prepare_keys(_, _)
prepare_keys(order, st) ==
    IF order = << >> THEN st
    ELSE
      LET key == Head(order)
          m == key.material_id
          texture_id == get_texture_id(m)
      IN
      IF st.instances[key].data = << >> THEN prepare_keys(Tail(order), st)
      ELSE IF ~IsSome(texture_id) THEN st
      ELSE
        LET texture == get("texture", Unwrap(texture_id))
            uniform_data == get_uniform_data_bytes(m)
            st1 == IF IsSome(texture) /\ IsSome(uniform_data)
                   THEN material_entry(m, Unwrap(texture),
                                       Unwrap(uniform_data), st)
                   ELSE st
        IN prepare_keys(Tail(order),
               [st1 EXCEPT !.instances[key].buffer =
                               Some(st.instances[key].data)])

\* Batches::prepare
prepare(order) ==
    prepare_keys(order, [instances |-> instances, mat_data |-> mat_data,
                         writes |-> [m \in Ids |-> 0]])

\* The draw call Batches::render issues for key.
draw_indexed(key, st) ==
    [key |-> key,
     pipeline |-> Unwrap(pipelines[Unwrap(get_shader_id(key.material_id))]),
     bind_group |-> Unwrap(st.mat_data[key.material_id]).bind_group,
     mesh |-> Unwrap(get("mesh", key.mesh_id)),
     instance_buffer |-> Unwrap(st.instances[key].buffer),
     instance_count |-> Len(st.instances[key].data)]

\* Variant of render_keys: a key with a missing dependency ends the loop
\* (`return` for `continue`, as Batches::prepare does on an unknown material).
RECURSIVE render_keys_return(_, _, _)
render_keys_return(order, st, calls) ==
    IF order = << >> THEN calls
    ELSE
      LET key == Head(order)
          shader_id == get_shader_id(key.material_id)
      IN
      IF st.instances[key].data = << >>
      THEN render_keys_return(Tail(order), st, calls)
      ELSE IF ~IsSome(shader_id) THEN render_keys_return(Tail(order), st, calls)
      ELSE IF /\ IsSome(get("mesh", key.mesh_id))
              /\ IsSome(st.mat_data[key.material_id])
              /\ IsSome(pipelines[Unwrap(shader_id)])
              /\ IsSome(st.instances[key].buffer)
           THEN render_keys_return(Tail(order), st,
                                   calls \cup {draw_indexed(key, st)})
           ELSE calls

\* The loop of Batches::render over the keys in iteration order, on the
\* batches st = [instances, mat_data]; calls is the set of draw calls issued
\* so far.
RECURSIVE render_keys(_, _, _)
render_keys(order, st, calls) ==
    IF order = << >> THEN calls
    ELSE
      LET key == Head(order)
          shader_id == get_shader_id(key.material_id)
      IN
      IF st.instances[key].data = << >>
      THEN render_keys(Tail(order), st, calls)
      ELSE IF ~IsSome(shader_id) THEN render_keys(Tail(order), st, calls)
      ELSE IF /\ IsSome(get("mesh", key.mesh_id))
              /\ IsSome(st.mat_data[key.material_id])
              /\ IsSome(pipelines[Unwrap(shader_id)])
              /\ IsSome(st.instances[key].buffer)
           THEN render_keys(Tail(order), st,
                            calls \cup {draw_indexed(key, st)})
           ELSE render_keys(Tail(order), st, calls)

\* Batches::render
render(order, st) == render_keys(order, st, {})

\* ------------------------------------------------------------ App::update
NoBatched == [key \in KeySet |-> << >>]
NoWrites == [m \in Ids |-> 0]

\* Variant of clear: the cached MaterialData are dropped with the instances.
clear_all ==
    [instances |-> NoInstances, materials |-> [m \in Ids |-> None]]

\* Variant of clear: the instance arrays are kept.
clear_retain ==
    [instances |-> instances, materials |-> mat_data]

\* Batches::clear: what it leaves in the two maps of Batches.
clear ==
    [instances |-> NoInstances, materials |-> mat_data]

\* Scene::begin_frame -> Batches::clear
BeginFrame ==
    /\ pc = "begin"
    /\ instances' = clear.instances
    /\ mat_data' = clear.materials
    /\ draws' = {}
    /\ uniform_writes' = NoWrites
    /\ batched' = NoBatched
    /\ drawn_before' = drawn_before \cup {d.key : d \in draws}
    /\ pc' = "script"
    /\ UNCHANGED << active, hostVars, assetVars, materials, registered_shaders,
                    pipelines >>

\* The script's update function calls batch_model.
ScriptAddModel(mesh_id, material_id, instance) ==
    /\ pc = "script"
    /\ Added(DOMAIN instances) < MaxAdds
    /\ instances' = add_model(mesh_id, material_id, instance)
    /\ batched' = [batched EXCEPT
                      ![[mesh_id |-> mesh_id, material_id |-> material_id]] =
                          Append(@, instance)]
    /\ UNCHANGED << active, hostVars, assetVars, pc, materials, registered_shaders,
                    pipelines, mat_data, draws, uniform_writes,
                    drawn_before >>

\* The script calls load_mesh or load_texture.  The script of this scene
\* uses both meshes and the default texture; a material may still name the
\* other texture, which then never becomes ready.
ScriptLoad(r, id) ==
    /\ pc = "script"
    /\ r \in {"mesh", "texture"}
    /\ r = "texture" => id = DEFAULT_TEXTURE
    /\ Load(r, id)

\* The script calls load_shader: ShaderAssets::load, then
\* Bundle::register_shader.
ScriptLoadShader(id) ==
    /\ pc = "script"
    /\ Len(pool) + Len(load_rx["shader"]) < MaxInFlight
    /\ loaded' = [loaded EXCEPT !["shader"] = load_loaded("shader", id)]
    /\ pool' = pool \o load_jobs("shader", id)
    /\ requested' = [requested EXCEPT !["shader"] = @ \cup {id}]
    /\ registered_shaders' = registered_shaders \cup {id}
    /\ UNCHANGED << active, hostVars, now, edits, disk, cache, load_rx, objs,
                    last_reload, frame_reloaded, pc, materials,
                    pipelines, mat_data, instances, draws, uniform_writes,
                    batched, drawn_before >>

\* MaterialManager::add
MaterialAdd(key, shader_id, texture_id) ==
    /\ pc = "script"
    /\ ~IsSome(materials[key])
    /\ materials' = add(key, SimpleMaterial(shader_id, texture_id))
    /\ UNCHANGED << active, hostVars, assetVars, pc, registered_shaders,
                    pipelines, mat_data, instances, draws, uniform_writes,
                    batched, drawn_before >>

\* Variant of ScriptDone: App::update goes from the script straight to
\* RenderState::render, RenderState::hot_reload is not called.
ScriptDone_no_hot_reload ==
    /\ pc = "script"
    /\ pc' = "render"
    /\ UNCHANGED << active, hostVars, assetVars, materials, registered_shaders,
                    pipelines, mat_data, instances, draws, uniform_writes,
                    batched, drawn_before >>

\* The script's update function returns.
ScriptDone ==
    /\ pc = "script"
    /\ pc' = "hot_reload"
    /\ UNCHANGED << active, hostVars, assetVars, materials, registered_shaders,
                    pipelines, mat_data, instances, draws, uniform_writes,
                    batched, drawn_before >>

\* RenderState::hot_reload: the shader, mesh and texture registries, then
\* the bundles.
RenderStateHotReload ==
    /\ pc = "hot_reload"
    /\ \E os \in Orders(Keys("shader")), om \in Orders(Keys("mesh")),
          ot \in Orders(Keys("texture")) :
        LET hs == hot_reload("shader", os)
            hm == hot_reload("mesh", om)
            ht == hot_reload("texture", ot)
            H(r) == IF r = "shader" THEN hs ELSE IF r = "mesh" THEN hm ELSE ht
        IN
        /\ cache' = [r \in Regs |-> H(r).cache]
        /\ last_reload' = [r \in Regs |-> H(r).last_reload]
        /\ pool' = pool \o hs.jobs \o hm.jobs \o ht.jobs
        /\ load_rx' = [r \in Regs |-> H(r).load_rx]
        /\ objs' = [r \in Regs |-> H(r).objs]
        /\ loaded' = [r \in Regs |-> H(r).loaded]
        /\ frame_reloaded' = hs.frame_reloaded
        /\ pipelines' = bundle_hot_reload(hs.frame_reloaded, hs.objs)
    /\ pc' = "render"
    /\ UNCHANGED << active, hostVars, now, edits, disk, requested, materials,
                    registered_shaders, mat_data, instances, draws,
                    uniform_writes, batched, drawn_before >>

\* RenderState::render: Scene::prepare -> Batches::prepare, then the render
\* pass -> Batches::render.  The two loops may iterate the map in different
\* orders only if it changed in between, which it does not.
RenderStateRender ==
    /\ pc = "render"
    /\ \E order \in Orders(DOMAIN instances) :
        LET p == prepare(order) IN
        /\ instances' = p.instances
        /\ mat_data' = p.mat_data
        /\ draws' = render(order, p)
        /\ uniform_writes' = p.writes
    /\ pc' = "begin"
    /\ UNCHANGED << active, hostVars, assetVars, materials, registered_shaders,
                    pipelines, batched, drawn_before >>

\* --------------------------------------------------------------- LuaState
ENTRY_POINT == "main"
\* the scripts of assets/scripts: the entry point and a module it requires
ScriptIds == {"main", "lib"}
\* What the entry point holds: "ok" defines an update function that
\* returns, "faulty" one that raises an error, "broken" does not execute.
ScriptKinds == {"ok", "faulty", "broken"}

\* LuaState::load_entry_point: the chunk is executed; when that fails the
\* error is logged and the globals stay as they were.  fn is the global
\* `update`.
load_entry_point(fn, data) ==
    IF data.kind = "broken" THEN fn ELSE Some(data)

\* LuaState::new; every script of the directory is in the cache.
LuaState_new ==
    [cache |-> [id \in ScriptIds |->
                   [asset |-> Some(scripts[id]), pending |-> None,
                    reloaded |-> FALSE]],
     entry_point |-> ENTRY_POINT,
     last_reload |-> now,
     update_fn |-> load_entry_point(None, scripts[ENTRY_POINT]),
     update_got_error |-> FALSE,
     executed |-> TRUE,     \* history: load_entry_point ran in the call
     called |-> FALSE,      \* history: the update function was called
     logged |-> FALSE]      \* history: error!("update ..") was written

\* AssetCache::hot_reload of the script cache
script_cache_hot_reload(c) ==
    [id \in ScriptIds |->
        IF IsSome(c[id].pending)
        THEN [asset |-> c[id].pending, pending |-> None, reloaded |-> TRUE]
        ELSE c[id]]

\* LuaState::any_script_reloaded over the ids of the directory in the order
\* it lists them: reloaded_global() consumes the flag of the first hit.
RECURSIVE any_script_reloaded(_, _)
any_script_reloaded(order, c) ==
    IF order = << >> THEN [found |-> None, cache |-> c]
    ELSE IF c[Head(order)].reloaded
         THEN [found |-> Some(Head(order)),
               cache |-> [c EXCEPT ![Head(order)].reloaded = FALSE]]
         ELSE any_script_reloaded(Tail(order), c)

\* the update function raises an error (or there is none to call)
update_fails(fn) == ~IsSome(fn) \/ Unwrap(fn).kind = "faulty"

\* Variant of LuaState_update: without `if self.update_got_error { return }`;
\* the update function is called in every frame and its error is logged
\* when the flag is not set yet.
LuaState_update_no_latch(order) ==
    LET c1 == script_cache_hot_reload(lua.cache)
        open == now - lua.last_reload >= RELOAD_DEBOUNCE
        polled == IF open THEN any_script_reloaded(order, c1)
                  ELSE [found |-> None, cache |-> c1]
        reload == IsSome(polled.found)
        fn == IF reload
              THEN load_entry_point(lua.update_fn,
                       Unwrap(polled.cache[lua.entry_point].asset))
              ELSE lua.update_fn
        flag == lua.update_got_error /\ ~reload
    IN  [cache |-> polled.cache,
         entry_point |-> lua.entry_point,
         last_reload |-> IF open THEN now ELSE lua.last_reload,
         update_fn |-> fn,
         update_got_error |-> flag \/ update_fails(fn),
         executed |-> reload,
         called |-> TRUE,
         logged |-> ~flag /\ update_fails(fn)]

\* LuaState::update
LuaState_update(order) ==
    LET c1 == script_cache_hot_reload(lua.cache)
        open == now - lua.last_reload >= RELOAD_DEBOUNCE
        polled == IF open THEN any_script_reloaded(order, c1)
                  ELSE [found |-> None, cache |-> c1]
        reload == IsSome(polled.found)
        fn == IF reload
              THEN load_entry_point(lua.update_fn,
                       Unwrap(polled.cache[lua.entry_point].asset))
              ELSE lua.update_fn
        flag == lua.update_got_error /\ ~reload
    IN  [cache |-> polled.cache,
         entry_point |-> lua.entry_point,
         last_reload |-> IF open THEN now ELSE lua.last_reload,
         update_fn |-> fn,
         update_got_error |-> IF flag THEN TRUE ELSE update_fails(fn),
         executed |-> reload,
         called |-> ~flag,
         logged |-> ~flag /\ update_fails(fn)]

\* ----------------------------------------------------------------- Inputs
KeyCodes == {"KeyR", "KeyW"}
Buttons == {0}

\* Inputs::default
Inputs_default ==
    [focused |-> FALSE,
     frame_device_events |-> << >>,
     frame_window_events |-> << >>,
     keys_state |-> [code \in KeyCodes |-> FALSE],
     last_keys_state |-> [code \in KeyCodes |-> FALSE],
     last_mouse_state |-> [button \in Buttons |-> FALSE],
     mouse_state |-> [button \in Buttons |-> FALSE]]

\* the events of winit the program looks at
KeyboardInput(code, state, repeat) ==
    [type |-> "KeyboardInput", code |-> code, state |-> state,
     repeat |-> repeat]
Focused(focused) == [type |-> "Focused", focused |-> focused]
RedrawRequested == [type |-> "RedrawRequested"]
Button(button, state) ==
    [type |-> "Button", button |-> button, state |-> state]

\* Inputs::handle_key
handle_key(st, event) ==
    IF st.last_keys_state[event.code] /\ event.repeat THEN st
    ELSE [st EXCEPT !.keys_state[event.code] = (event.state = "Pressed")]

\* Inputs::handle_mouse_input
handle_mouse_input(st, button, state) ==
    [st EXCEPT !.mouse_state[button] = (state = "Pressed")]

\* Inputs::handle_window_event
handle_window_event(st, event) ==
    CASE event.type = "KeyboardInput" -> handle_key(st, event)
      [] event.type = "Focused" -> [st EXCEPT !.focused = event.focused]
      [] OTHER -> st

\* Inputs::handle_device_event
handle_device_event(st, event) ==
    IF event.type = "Button"
    THEN handle_mouse_input(st, event.button, event.state)
    ELSE st

\* while let Some(event) = self.frame_window_events.pop(): Vec::pop takes
\* the last element
RECURSIVE pop_window_events(_)
pop_window_events(st) ==
    LET q == st.frame_window_events IN
    IF q = << >> THEN st
    ELSE pop_window_events(
             handle_window_event(
                 [st EXCEPT !.frame_window_events = SubSeq(q, 1, Len(q) - 1)],
                 q[Len(q)]))

\* while let Some(event) = self.frame_device_events.pop()
RECURSIVE pop_device_events(_)
pop_device_events(st) ==
    LET q == st.frame_device_events IN
    IF q = << >> THEN st
    ELSE pop_device_events(
             handle_device_event(
                 [st EXCEPT !.frame_device_events = SubSeq(q, 1, Len(q) - 1)],
                 q[Len(q)]))

\* Variant of Inputs_update: the states of the previous frame are not
\* copied before the events are applied.
Inputs_update_no_copy(st) ==
    pop_device_events(pop_window_events(st))

\* Inputs::update
Inputs_update(st) ==
    pop_device_events(pop_window_events(
        [st EXCEPT !.last_keys_state = st.keys_state,
                   !.last_mouse_state = st.mouse_state]))

\* Inputs::focus_out
focus_out(st) ==
    [st EXCEPT !.keys_state = [code \in KeyCodes |-> FALSE],
               !.last_keys_state = [code \in KeyCodes |-> FALSE],
               !.mouse_state = [button \in Buttons |-> FALSE],
               !.last_mouse_state = [button \in Buttons |-> FALSE]]

\* Inputs::on_window_event
on_window_event(st, event) ==
    [st EXCEPT !.frame_window_events = Append(@, event)]

\* Inputs::on_device_event
on_device_event(st, event) ==
    [st EXCEPT !.frame_device_events = Append(@, event)]

key_pressed(code) == inputs.keys_state[code]
key_just_pressed(code) ==
    inputs.keys_state[code] /\ ~inputs.last_keys_state[code]
mouse_pressed(button) == inputs.mouse_state[button]
mouse_just_pressed(button) ==
    inputs.mouse_state[button] /\ ~inputs.last_mouse_state[button]

\* App::window_event, as far as Inputs goes: RedrawRequested runs
\* App::update, which starts with inputs.update(); Focused(false) calls
\* focus_out; every event is queued afterwards.
window_event(st, event) ==
    on_window_event(
        IF event.type = "RedrawRequested" THEN Inputs_update(st)
        ELSE IF event.type = "Focused" /\ ~event.focused THEN focus_out(st)
        ELSE st,
        event)

\* what the keyboard and mouse did: the keys and buttons held down, whether
\* the window has the focus, and the keys and buttons a press event was
\* received for since the focus was lost last (or since the start)
NoDevice ==
    [keys |-> {}, buttons |-> {}, focus |-> FALSE,
     key_presses |-> {}, button_presses |-> {}]

\* App::new: the scripts as they are on disk, nothing held down
InitHost ==
    /\ scripts = [id \in ScriptIds |-> [ver |-> 0, kind |-> "ok"]]
    /\ lua = LuaState_new
    /\ device = NoDevice
    /\ inputs = Inputs_default

\* ------------------------------------------------------------------- Init
InitAssets ==
    /\ now = 0
    /\ edits = 0
    /\ cache = [r \in Regs |-> [id \in Ids |->
                   [asset |-> None, pending |-> None, reloaded |-> FALSE]]]
    /\ pool = << >>
    /\ load_rx = [r \in Regs |-> << >>]
    /\ loaded = [r \in Regs |-> {}]
    /\ objs = [r \in Regs |-> [id \in Ids |-> None]]
    /\ last_reload = [r \in Regs |-> 0]
    /\ frame_reloaded = None
    /\ requested = [r \in Regs |-> {}]

InitFrameIdle ==
    /\ pc = "begin"
    /\ materials = [k \in Ids |-> None]
    /\ registered_shaders = {}
    /\ pipelines = [id \in Ids |-> None]
    /\ mat_data = [k \in Ids |-> None]
    /\ instances = NoInstances
    /\ draws = {}
    /\ uniform_writes = NoWrites
    /\ batched = NoBatched
    /\ drawn_before = {}

\* One registry on its own, its files in any condition.
Init ==
    /\ \E r \in Regs :
        /\ active = {r}
        /\ disk \in [Regs -> [Ids -> [ver : {0}, kind : {"ok", "undecodable"}]]]
        /\ \A q \in Regs \ {r} : \A id \in Ids : disk[q][id].kind = "ok"
    /\ InitAssets
    /\ InitFrameIdle
    /\ InitHost

Next ==
    \/ \E r \in Regs, id \in Ids : Load(r, id)
    \/ \E r \in Regs : HotReload(r)
    \/ WorkerStep
    \/ \E r \in Regs, id \in Ids, kind \in {"ok", "undecodable", "unparsable"} :
          FileChange(r, id, kind)
    \/ Tick

Spec == Init /\ [][Next]_vars

\* A job completes during the frame.  Completions commute with begin_frame,
\* batch_model, prepare and render (which touch neither the pool, the
\* channels nor the cache), so the frame observes them where it can tell:
\* between the script's calls and before RenderState::hot_reload polls.
FrameWorkerStep ==
    /\ pc \in {"script", "hot_reload"}
    /\ WorkerStep

\* The application after RenderState::new and Bundle::new: the default
\* texture and shader are requested, the default material is added.
InitFrame ==
    /\ active = Regs
    /\ now = 0
    /\ edits = 0
    /\ disk = [r \in Regs |-> [id \in Ids |-> [ver |-> 0, kind |-> "ok"]]]
    /\ cache = [r \in Regs |-> [id \in Ids |->
                   [asset |-> None, pending |-> None, reloaded |-> FALSE]]]
    /\ pool = << load_internal("texture", DEFAULT_TEXTURE),
                 load_internal("shader", DEFAULT_SHADER) >>
    /\ load_rx = [r \in Regs |-> << >>]
    /\ loaded = [r \in Regs |-> IF r = "shader" THEN {DEFAULT_SHADER} ELSE {}]
    /\ objs = [r \in Regs |-> [id \in Ids |-> None]]
    /\ last_reload = [r \in Regs |-> 0]
    /\ frame_reloaded = None
    /\ requested = [r \in Regs |->
                       IF r = "shader" THEN {DEFAULT_SHADER}
                       ELSE IF r = "texture" THEN {DEFAULT_TEXTURE} ELSE {}]
    /\ pc = "begin"
    /\ materials = [k \in Ids |->
                       IF k = DEFAULT_MATERIAL
                       THEN Some(SimpleMaterial(DEFAULT_SHADER, DEFAULT_TEXTURE))
                       ELSE None]
    /\ registered_shaders = {DEFAULT_SHADER}
    /\ pipelines = [id \in Ids |-> None]
    /\ mat_data = [k \in Ids |-> None]
    /\ instances = NoInstances
    /\ draws = {}
    /\ uniform_writes = NoWrites
    /\ batched = NoBatched
    /\ drawn_before = {}
    /\ InitHost

NextFrame ==
    \/ BeginFrame
    \/ \E mesh_id \in Ids, material_id \in Ids, instance \in InstVals :
          ScriptAddModel(mesh_id, material_id, instance)
    \/ \E r \in Regs, id \in Ids : ScriptLoad(r, id)
    \/ \E key \in Ids, shader_id \in Ids, texture_id \in Ids :
          MaterialAdd(key, shader_id, texture_id)
    \/ ScriptDone
    \/ RenderStateHotReload
    \/ RenderStateRender
    \/ FrameWorkerStep

SpecFrame == InitFrame /\ [][NextFrame]_vars

\* ------------------------------------------------------ debounced reloads
\* ShaderAssets::reloaded: what it returns and what it leaves in last_reload
\* and in the cache.  Inside the debounce window it returns false and the
\* handle's flag is not read.
reloaded(shader_id) ==
    LET open == now - last_reload["shader"] >= RELOAD_DEBOUNCE IN
    [result |-> open /\ cache["shader"][shader_id].reloaded,
     last_reload |-> IF open THEN now ELSE last_reload["shader"],
     cache |-> IF open
               THEN [cache["shader"] EXCEPT ![shader_id].reloaded = FALSE]
               ELSE cache["shader"]]

\* A bundle asks ShaderAssets::reloaded about a shader the cache holds
\* (load_expect panics otherwise).
Reloaded(shader_id) ==
    /\ "shader" \in active
    /\ contains("shader", shader_id)
    /\ last_reload' = [last_reload EXCEPT !["shader"] =
                          reloaded(shader_id).last_reload]
    /\ cache' = [cache EXCEPT !["shader"] = reloaded(shader_id).cache]
    /\ UNCHANGED << active, hostVars, now, edits, disk, pool, load_rx, loaded, objs,
                    frame_reloaded, requested, frameVars >>

\* The shader registry on its own, polled by hot_reload and by reloaded.
InitDebounce ==
    /\ active = {"shader"}
    /\ disk = [r \in Regs |-> [id \in Ids |-> [ver |-> 0, kind |-> "ok"]]]
    /\ InitAssets
    /\ InitFrameIdle
    /\ InitHost

NextDebounce ==
    \/ \E id \in Ids : Load("shader", id)
    \/ HotReload("shader")
    \/ WorkerStep
    \/ \E id \in Ids, kind \in {"ok", "undecodable"} :
          FileChange("shader", id, kind)
    \/ Tick
    \/ \E id \in Ids : Reloaded(id)

SpecDebounce == InitDebounce /\ [][NextDebounce]_vars

\* --------------------------------------------- time that keeps advancing
Max(a, b) == IF a > b THEN a ELSE b

\* Time passes, without end.  hot_reload reads the clock only through
\* last_reload.elapsed() >= RELOAD_DEBOUNCE: once the clock of the model has
\* reached MaxTime, the passing of time is kept as the age of last_reload,
\* which stops growing at RELOAD_DEBOUNCE.
Elapse ==
    IF now + TickMs <= MaxTime
    THEN Tick
    ELSE /\ last_reload' = [r \in Regs |->
                Max(last_reload[r] - TickMs,
                    Min(last_reload[r], now - RELOAD_DEBOUNCE))]
         /\ UNCHANGED << active, hostVars, now, edits, disk, cache, pool, load_rx,
                         loaded, objs, frame_reloaded, requested, frameVars >>

\* The shader registry polled every frame while time advances; the polling
\* loops of MeshAssets and TextureAssets are the same statements.
NextWindow ==
    \/ \E id \in Ids : Load("shader", id)
    \/ HotReload("shader")
    \/ WorkerStep
    \/ \E id \in Ids, kind \in {"ok", "undecodable"} :
          FileChange("shader", id, kind)
    \/ Elapse

\* App::update calls RenderState::hot_reload in every frame and frames keep
\* coming; the clock advances.
SpecWindow ==
    /\ InitDebounce
    /\ [][NextWindow]_vars
    /\ WF_vars(HotReload("shader"))
    /\ WF_vars(Elapse)

\* ------------------------------------------------- the script, by frame
\* App::update calls LuaState::update once per frame.
LuaUpdate ==
    /\ \E order \in Orders(ScriptIds) : lua' = LuaState_update(order)
    /\ UNCHANGED << active, assetVars, frameVars, scripts, device, inputs >>

\* A script file is rewritten; the watcher of the script cache queues the
\* new text.
ScriptFileChange(id, kind) ==
    /\ edits < MaxEdits
    /\ id # ENTRY_POINT => kind = "ok"
    /\ edits' = edits + 1
    /\ scripts' = [scripts EXCEPT ![id] = [ver |-> edits + 1, kind |-> kind]]
    /\ lua' = [lua EXCEPT !.cache[id].pending =
                  Some([ver |-> edits + 1, kind |-> kind])]
    /\ UNCHANGED << active, now, disk, cache, pool, load_rx, loaded, objs,
                    last_reload, frame_reloaded, requested, frameVars,
                    device, inputs >>

\* App::new with an entry point of any kind
InitLua ==
    /\ active = {}
    /\ disk = [r \in Regs |-> [id \in Ids |-> [ver |-> 0, kind |-> "ok"]]]
    /\ InitAssets
    /\ InitFrameIdle
    /\ \E kind \in ScriptKinds :
         scripts = [id \in ScriptIds |->
                       [ver |-> 0,
                        kind |-> IF id = ENTRY_POINT THEN kind ELSE "ok"]]
    /\ lua = LuaState_new
    /\ device = NoDevice
    /\ inputs = Inputs_default

NextLua ==
    \/ LuaUpdate
    \/ \E id \in ScriptIds, kind \in ScriptKinds : ScriptFileChange(id, kind)
    \/ Tick

SpecLua == InitLua /\ [][NextLua]_vars

\* --------------------------------------------- keyboard, mouse and focus
Queued == Len(inputs.frame_window_events) + Len(inputs.frame_device_events)

HostIdle ==
    UNCHANGED << active, assetVars, frameVars, scripts, lua >>

\* The window has the focus and a key goes down.
KeyPress(code) ==
    /\ Queued < MaxEvents
    /\ device.focus
    /\ code \notin device.keys
    /\ device' = [device EXCEPT !.keys = @ \cup {code},
                                !.key_presses = @ \cup {code}]
    /\ inputs' = window_event(inputs, KeyboardInput(code, "Pressed", FALSE))
    /\ HostIdle

\* A key that is held down repeats.
KeyRepeat(code) ==
    /\ Queued < MaxEvents
    /\ device.focus
    /\ code \in device.keys
    /\ inputs' = window_event(inputs, KeyboardInput(code, "Pressed", TRUE))
    /\ UNCHANGED device
    /\ HostIdle

KeyRelease(code) ==
    /\ Queued < MaxEvents
    /\ device.focus
    /\ code \in device.keys
    /\ device' = [device EXCEPT !.keys = @ \ {code}]
    /\ inputs' = window_event(inputs, KeyboardInput(code, "Released", FALSE))
    /\ HostIdle

\* Device events are not tied to the window.
ButtonPress(button) ==
    /\ Queued < MaxEvents
    /\ button \notin device.buttons
    /\ device' = [device EXCEPT !.buttons = @ \cup {button},
                                !.button_presses = @ \cup {button}]
    /\ inputs' = on_device_event(inputs, Button(button, "Pressed"))
    /\ HostIdle

ButtonRelease(button) ==
    /\ Queued < MaxEvents
    /\ button \in device.buttons
    /\ device' = [device EXCEPT !.buttons = @ \ {button}]
    /\ inputs' = on_device_event(inputs, Button(button, "Released"))
    /\ HostIdle

\* The window gains or loses the focus; the keyboard of a window without
\* focus sends it nothing, so nothing is known to be held afterwards.
Focus(focused) ==
    /\ Queued < MaxEvents
    /\ device.focus # focused
    /\ device' = IF focused THEN [device EXCEPT !.focus = TRUE]
                 ELSE [device EXCEPT !.focus = FALSE, !.keys = {},
                                     !.key_presses = {},
                                     !.button_presses = {}]
    /\ inputs' = window_event(inputs, Focused(focused))
    /\ HostIdle

\* WindowEvent::RedrawRequested: one frame. With no asset requested and no
\* instance in the scene the rest of App::update has nothing to do but to
\* call the script.
Redraw ==
    /\ inputs' = window_event(inputs, RedrawRequested)
    /\ \E order \in Orders(ScriptIds) : lua' = LuaState_update(order)
    /\ UNCHANGED << active, assetVars, frameVars, scripts, device >>

InitInputs ==
    /\ active = {}
    /\ disk = [r \in Regs |-> [id \in Ids |-> [ver |-> 0, kind |-> "ok"]]]
    /\ InitAssets
    /\ InitFrameIdle
    /\ InitHost

NextInputs ==
    \/ \E code \in KeyCodes : KeyPress(code)
    \/ \E code \in KeyCodes : KeyRepeat(code)
    \/ \E code \in KeyCodes : KeyRelease(code)
    \/ \E button \in Buttons : ButtonPress(button)
    \/ \E button \in Buttons : ButtonRelease(button)
    \/ \E focused \in BOOLEAN : Focus(focused)
    \/ Redraw

SpecInputs == InitInputs /\ [][NextInputs]_vars

\* ------------------------------------------- the material store alone
\* the colours a caller writes into a material
Colors == 0..MaxColor

Materials ==
    {[SimpleMaterial(sh, tx) EXCEPT !.uniform.color = c] :
        sh \in Ids, tx \in Ids, c \in Colors}

\* materials.add(key, SimpleMaterial::new(shader_id, texture_id)), under a
\* new key or a key in use
Add(key, shader_id, texture_id) ==
    /\ materials' = add(key, SimpleMaterial(shader_id, texture_id))
    /\ UNCHANGED << active, hostVars, assetVars, pc, registered_shaders, pipelines,
                    mat_data, instances, draws, uniform_writes, batched,
                    drawn_before >>

\* The caller writes through get_mut_any(key): a field of the material or
\* the whole box, downcast to the material's type.
Mutate(key, material) ==
    /\ IsSome(get_mut_any(key))
    /\ materials' = [materials EXCEPT ![key] = Some(material)]
    /\ UNCHANGED << active, hostVars, assetVars, pc, registered_shaders, pipelines,
                    mat_data, instances, draws, uniform_writes, batched,
                    drawn_before >>

\* MaterialManager::new
InitMaterial ==
    /\ active = {}
    /\ disk = [r \in Regs |-> [id \in Ids |-> [ver |-> 0, kind |-> "ok"]]]
    /\ InitAssets
    /\ InitFrameIdle
    /\ InitHost

NextMaterial ==
    \/ \E key \in Ids, shader_id \in Ids, texture_id \in Ids :
          Add(key, shader_id, texture_id)
    \/ \E key \in Ids, material \in Materials : Mutate(key, material)

SpecMaterial == InitMaterial /\ [][NextMaterial]_vars

\* ------------------------------------------------- jobs, step by step
\* A job computes its result: cache.load and the decoding of what it read.
\* The job keeps running; other threads run before it sends.
WorkerRead ==
    \E i \in 1..Min(POOL_SIZE, Len(pool)) :
        LET job == pool[i] IN
        /\ ~IsSome(job.got)
        /\ pool' = IF job_panics(job.reg, job.id) THEN RemoveAt(pool, i)
                   ELSE [pool EXCEPT ![i].got =
                            Some(job_result(job.reg, job.id))]
        /\ cache' = [cache EXCEPT ![job.reg] = cache_after_load(job.reg, job.id)]
        /\ UNCHANGED << active, hostVars, now, edits, disk, load_rx, loaded, objs,
                        last_reload, frame_reloaded, requested, frameVars >>

\* load_tx.send((id, result)).unwrap(): the job ends.
WorkerSend ==
    \E i \in 1..Min(POOL_SIZE, Len(pool)) :
        LET job == pool[i] IN
        /\ IsSome(job.got)
        /\ load_rx' = [load_rx EXCEPT ![job.reg] = Append(@, Unwrap(job.got))]
        /\ pool' = RemoveAt(pool, i)
        /\ UNCHANGED << active, hostVars, now, edits, disk, cache, loaded, objs,
                        last_reload, frame_reloaded, requested, frameVars >>

\* One registry, its files decodable, its jobs preempted between reading
\* the cache and sending.
InitRace ==
    /\ \E r \in Regs : active = {r}
    /\ disk = [r \in Regs |-> [id \in Ids |-> [ver |-> 0, kind |-> "ok"]]]
    /\ InitAssets
    /\ InitFrameIdle
    /\ InitHost

NextRace ==
    \/ \E r \in Regs, id \in Ids : Load(r, id)
    \/ \E r \in Regs : HotReload(r)
    \/ WorkerRead
    \/ WorkerSend
    \/ \E r \in Regs, id \in Ids : FileChange(r, id, "ok")
    \/ Tick

SpecRace == InitRace /\ [][NextRace]_vars

\* ------------------------------------------------------------ mesh jobs
\* The mesh registry on its own, its OBJ files with or without normals and
\* texture coordinates.
InitMesh ==
    /\ active = {"mesh"}
    /\ disk \in [Regs -> [Ids -> [ver : {0}, kind : {"ok", "incomplete"}]]]
    /\ \A q \in Regs \ {"mesh"} : \A id \in Ids : disk[q][id].kind = "ok"
    /\ InitAssets
    /\ InitFrameIdle
    /\ InitHost

NextMesh ==
    \/ \E id \in Ids : Load("mesh", id)
    \/ HotReload("mesh")
    \/ WorkerStep
    \/ \E id \in Ids, kind \in {"ok", "unparsable", "incomplete"} :
          FileChange("mesh", id, kind)
    \/ Tick

SpecMesh == InitMesh /\ [][NextMesh]_vars

\* ------------------------------------------------- shaders and pipelines
\* A caller of the registry loads a shader through ShaderAssets::load alone,
\* without telling the bundle.
ShaderLoad(id) ==
    /\ pc = "script"
    /\ Load("shader", id)

\* A shader file is rewritten while the frame runs.  A change commutes with
\* the script's calls, which read neither the disk nor the watcher's queue,
\* so it is taken while the script runs, before or after any job completion.
ShaderFileChange(id, kind) ==
    /\ pc = "script"
    /\ FileChange("shader", id, kind)

\* Time passes between two frames' polls: only hot_reload reads the clock.
FrameTick ==
    /\ pc = "hot_reload"
    /\ Tick

\* The frame loop seen from the model Bundle: shaders are loaded, with or
\* without registration, their files change, and every frame runs
\* RenderState::hot_reload.
NextBundle ==
    \/ BeginFrame
    \/ \E id \in Ids : ScriptLoadShader(id)
    \/ \E id \in Ids : ShaderLoad(id)
    \/ ScriptDone
    \/ RenderStateHotReload
    \/ RenderStateRender
    \/ FrameWorkerStep
    \/ \E id \in Ids, kind \in {"ok", "undecodable"} : ShaderFileChange(id, kind)
    \/ FrameTick

SpecBundle == InitFrame /\ [][NextBundle]_vars

\* -------------------------------------------- load_shader, step by step
\* The position of the script inside load_shader(id), between
\* this.shaders.load and this.bundles.model.register_shader.
registering(id) == "register_shader " \o id

\* load_shader(id), first statement: this.shaders.load(&shader_id)
LoadShaderLoad(id) ==
    /\ pc = "script"
    /\ Len(pool) + Len(load_rx["shader"]) < MaxInFlight
    /\ loaded' = [loaded EXCEPT !["shader"] = load_loaded("shader", id)]
    /\ pool' = pool \o load_jobs("shader", id)
    /\ requested' = [requested EXCEPT !["shader"] = @ \cup {id}]
    /\ pc' = registering(id)
    /\ UNCHANGED << active, hostVars, now, edits, disk, cache, load_rx, objs,
                    last_reload, frame_reloaded, materials,
                    registered_shaders, pipelines, mat_data, instances,
                    draws, uniform_writes, batched, drawn_before >>

\* load_shader(id), second statement:
\* this.bundles.model.register_shader(&shader_id)
LoadShaderRegister(id) ==
    /\ pc = registering(id)
    /\ registered_shaders' = registered_shaders \cup {id}
    /\ pc' = "script"
    /\ UNCHANGED << active, hostVars, assetVars, materials, pipelines, mat_data,
                    instances, draws, uniform_writes, batched, drawn_before >>

\* A job completes while the main thread is between the two statements.
MidCallWorkerStep ==
    /\ \E id \in Ids : pc = registering(id)
    /\ WorkerStep

\* The frame loop with the shader calls the application makes: Bundle::new
\* registers the default shader and then loads it, scripts call load_shader.
NextLoadShader ==
    \/ BeginFrame
    \/ \E id \in Ids : LoadShaderLoad(id)
    \/ \E id \in Ids : LoadShaderRegister(id)
    \/ MidCallWorkerStep
    \/ ScriptDone
    \/ RenderStateHotReload
    \/ RenderStateRender
    \/ FrameWorkerStep
    \/ \E id \in Ids, kind \in {"ok", "undecodable"} : ShaderFileChange(id, kind)
    \/ FrameTick

SpecLoadShader == InitFrame /\ [][NextLoadShader]_vars

\* ------------------------------------------------- textures and batches
\* A texture file is rewritten while the frame runs.
TextureFileChange(id, kind) ==
    /\ pc = "script"
    /\ FileChange("texture", id, kind)

\* The frame loop of a scene that draws one mesh with the default material
\* while the file of the default texture changes.
NextReload ==
    \/ BeginFrame
    \/ \E instance \in InstVals :
          ScriptAddModel(SCENE_MESH, DEFAULT_MATERIAL, instance)
    \/ ScriptLoad("mesh", SCENE_MESH)
    \/ ScriptDone
    \/ RenderStateHotReload
    \/ RenderStateRender
    \/ FrameWorkerStep
    \/ \E kind \in {"ok", "undecodable"} :
          TextureFileChange(DEFAULT_TEXTURE, kind)
    \/ FrameTick

SpecReload == InitFrame /\ [][NextReload]_vars

\* ================================================================= claims
\* The ids a registry's `loaded` set can tell apart from Unrequested.
Tracked == {"shader", "mesh"}

\* try_recv of registry r would return a result of id / a failed one.
HeadIs(r, id) == load_rx[r] # << >> /\ Head(load_rx[r]).id = id
HeadOk(r, id) == HeadIs(r, id) /\ Head(load_rx[r]).ok
HeadErr(r, id) == HeadIs(r, id) /\ ~Head(load_rx[r]).ok

\* every dependency of a key's draw is resolved
Resolved(key) ==
    /\ key \in DOMAIN instances
    /\ instances[key].data # << >>
    /\ IsSome(get_shader_id(key.material_id))
    /\ IsSome(get("mesh", key.mesh_id))
    /\ IsSome(mat_data[key.material_id])
    /\ IsSome(pipelines[Unwrap(get_shader_id(key.material_id))])
    /\ IsSome(instances[key].buffer)

Drawn(key) == \E d \in draws : d.key = key

\* C1: when the render pass of a frame is over, the keys it issued a draw
\* for are exactly the keys with instances whose mesh, cached bind group,
\* pipeline and instance buffer are all present; a key missing one of them
\* is skipped and the other keys are still drawn.
C1_DrawOnlyResolved ==
    pc = "begin" => \A key \in KeySet : Drawn(key) <=> Resolved(key)

\* C1 witness: a frame drew one key and skipped another whose mesh is still
\* loading although it has instances and a cached bind group.
C1_Witness ==
    /\ pc = "begin"
    /\ \E k1, k2 \in DOMAIN instances :
        /\ Drawn(k1)
        /\ ~Drawn(k2)
        /\ instances[k2].data # << >>
        /\ IsSome(mat_data[k2.material_id])
        /\ ~IsSome(get("mesh", k2.mesh_id))
        /\ InFlight("mesh", k2.mesh_id) > 0

\* C2: for every id of every registry at most one load job is in flight
\* (submitted and not yet drained by hot_reload).
C2_AtMostOneInFlight ==
    \A r \in Regs, id \in Ids : InFlight(r, id) <= 1

\* C3: ShaderAssets::load and MeshAssets::load are idempotent.  A call for an
\* id outside `loaded` submits exactly one job and puts the id in `loaded`; a
\* call for an id in `loaded` submits nothing and changes no state; and an id
\* leaves `loaded` only when hot_reload drains a failed result for it.
C3_LoadIdempotent ==
    [][\A r \in Tracked, id \in Ids :
        /\ Load(r, id) /\ id \notin loaded[r] =>
              /\ pool' = Append(pool, load_internal(r, id))
              /\ loaded'[r] = loaded[r] \cup {id}
        /\ Load(r, id) /\ id \in loaded[r] =>
              UNCHANGED << pool, loaded, load_rx, objs, cache, last_reload,
                           frame_reloaded >>
        /\ id \in loaded[r] /\ id \notin loaded'[r] =>
              HeadErr(r, id) /\ load_rx'[r] = Tail(load_rx[r])
      ]_vars

\* C3 witness: an id of the shader or mesh registry was loaded, its only job
\* is in flight, and the script is free to call load again.
C3_Witness ==
    \E r \in Tracked, id \in Ids :
        /\ r \in active
        /\ id \in loaded[r]
        /\ InFlight(r, id) = 1
        /\ Len(pool) + Len(load_rx[r]) < MaxInFlight

\* C4: a TextureAssets::load call for a texture whose earlier job no worker
\* has run yet submits nothing.
C4_TextureLoadTwice ==
    [][\A id \in Ids :
        Load("texture", id) /\ id \in requested["texture"]
            /\ InPool("texture", id) # {} => pool' = pool
      ]_vars

\* a reload of id is confirmed: the cache has applied, or is about to apply,
\* a change of its file
Changed(r, id) == cache[r][id].reloaded \/ IsSome(cache[r][id].pending)

\* C5: when id has a materialized object, its file changed (and no other
\* file of the registry did) and the debounce window has elapsed, a
\* hot_reload call submits exactly one job for id and consumes the change;
\* and the object get(id) returns is replaced only by the hot_reload call
\* that drains a successful result of id, never removed.
C5_ReloadNoGap ==
    [][\A r \in Regs, id \in Ids :
        /\ ( /\ HotReload(r)
             /\ IsSome(get(r, id))
             /\ Changed(r, id)
             /\ \A other \in Ids \ {id} : ~Changed(r, other)
             /\ now - last_reload[r] >= RELOAD_DEBOUNCE )
           => /\ pool' = Append(pool, load_internal(r, id))
              /\ ~cache'[r][id].reloaded
              /\ ~IsSome(cache'[r][id].pending)
        /\ IsSome(get(r, id)) =>
              \/ get(r, id)' = get(r, id)
              \/ /\ HeadOk(r, id)
                 /\ load_rx'[r] = Tail(load_rx[r])
                 /\ IsSome(get(r, id)')
      ]_vars

\* C5 witness: the reload job of a changed, materialized id is in flight and
\* get(id) still returns the object built from the previous content.
C5_Witness ==
    \E r \in Regs, id \in Ids :
        /\ IsSome(get(r, id))
        /\ IsSome(cache[r][id].asset)
        /\ Unwrap(cache[r][id].asset).ver > Unwrap(get(r, id)).src
        /\ ~Changed(r, id)
        /\ InFlight(r, id) = 1

\* C6: a hot_reload call takes at most one result off its channel, the
\* oldest one, and applies it; the results behind it stay queued in order.
C6_OneResultPerCall ==
    [][\A r \in Regs :
        /\ HotReload(r) /\ load_rx[r] = << >> =>
              load_rx'[r] = << >> /\ objs'[r] = objs[r]
        /\ HotReload(r) /\ load_rx[r] # << >> =>
              /\ load_rx'[r] = Tail(load_rx[r])
              /\ LET msg == Head(load_rx[r]) IN
                 objs'[r] = IF msg.ok
                            THEN [objs[r] EXCEPT
                                    ![msg.id] = Some(create(@, msg.src))]
                            ELSE objs[r]
      ]_vars

\* C6 witness: two results are queued on one channel.
C6_Witness ==
    \E r \in Regs : r \in active /\ Len(load_rx[r]) = 2

\* C7: an id load was never called for has no object and no job, in the pool
\* or on the channel, in any reachable state.
C7_NeverRequested ==
    \A r \in Regs, id \in Ids :
        id \notin requested[r] =>
            /\ ~IsSome(get(r, id))
            /\ InPool(r, id) = {}
            /\ InChannel(r, id) = {}

\* C7 witness: the file of a never requested id has changed, the debounce
\* window is open and the registry is polling another, materialized id.
C7_Witness ==
    \E r \in Regs, id, other \in Ids :
        /\ id \notin requested[r]
        /\ disk[r][id].ver > 0
        /\ IsSome(get(r, other))
        /\ now - last_reload[r] >= RELOAD_DEBOUNCE

\* C8: the hot_reload call that drains a failed result of id creates and
\* replaces no object, leaves the other ids of `loaded` alone and, in the
\* shader and mesh registries, removes id from `loaded`, so that the next
\* load(id) submits a job again.
C8_ErrorReturnsToUnrequested ==
    [][\A r \in Regs, id \in Ids :
        HotReload(r) /\ HeadErr(r, id) =>
            /\ objs' = objs
            /\ loaded'[r] \ {id} = loaded[r] \ {id}
            /\ r \in Tracked => id \notin loaded'[r] /\ ~load_guard(r, id)'
      ]_vars

\* C8 witness: a requested id of the shader or mesh registry is out of
\* `loaded` again with nothing in flight and no object: its load failed and
\* the failure was drained.
C8_Witness ==
    \E r \in Tracked, id \in Ids :
        /\ id \in requested[r]
        /\ id \notin loaded[r]
        /\ InFlight(r, id) = 0
        /\ ~IsSome(get(r, id))

\* C9: a load call for an id that is Loading (a job in flight) or Ready
\* (get returns an object) submits nothing and changes no state.
C9_LoadOnlyWhenUnrequested ==
    [][\A r \in Regs, id \in Ids :
        Load(r, id) /\ (InFlight(r, id) > 0 \/ IsSome(get(r, id))) =>
            pool' = pool /\ loaded' = loaded
      ]_vars

\* never requested, or put back by a failed load
Unrequested(r, id) ==
    id \notin requested[r] \/ (r \in Tracked /\ id \notin loaded[r])

\* C10 as stated: get(id) is None whenever id is Loading or Unrequested.
C10_NoneWhileLoadingOrUnrequested ==
    \A r \in Regs, id \in Ids :
        (InFlight(r, id) > 0 \/ Unrequested(r, id)) => ~IsSome(get(r, id))

\* C10 amended: get(id) is None from construction until the hot_reload call
\* that drains the first successful result of id: it is None while id was
\* never requested, during its first load and after failed first loads.
C10_NoneUntilFirstSuccess ==
    /\ \A r \in Regs, id \in Ids : ~IsSome(get(r, id))
    /\ [][\A r \in Regs, id \in Ids :
            ~IsSome(get(r, id)) /\ IsSome(get(r, id)') =>
                HeadOk(r, id) /\ load_rx'[r] = Tail(load_rx[r])
         ]_vars

\* C10 witness: the first job of a requested id is in flight and get(id) is
\* None.
C10_Witness ==
    \E r \in Regs, id \in Ids :
        /\ id \in requested[r]
        /\ InFlight(r, id) > 0
        /\ ~IsSome(get(r, id))

\* C11: for a registered shader id, the bundle has no pipeline while the
\* registry holds no module of it (no load has been drained successfully),
\* whatever number of hot_reload ticks run; the tick that drains a
\* successful load of it, the first or a later one, leaves an entry for it
\* that is a new pipeline object.
C11_PipelineFollowsLoads ==
    /\ [](\A id \in Ids :
            ~IsSome(get("shader", id)) => ~IsSome(pipelines[id]))
    /\ [][\A id \in Ids :
            /\ RenderStateHotReload
            /\ id \in registered_shaders
            /\ HeadOk("shader", id)
            => /\ IsSome(pipelines'[id])
               /\ pipelines'[id] # pipelines[id]
               /\ Unwrap(pipelines'[id]).module.gen
                     = IF IsSome(pipelines[id])
                       THEN Unwrap(pipelines[id]).module.gen + 1
                       ELSE Unwrap(get("shader", id)').gen
         ]_vars

\* C11 witness: the pipeline of a registered shader was replaced by a
\* reload: it is built from the second module of its id.
C11_Witness ==
    \E id \in registered_shaders :
        /\ IsSome(pipelines[id])
        /\ Unwrap(pipelines[id]).module.gen = 2

\* C12: the bundle holds pipelines of registered shader ids only, and the
\* tick in which an unregistered shader is reloaded changes no pipeline.
C12_UnregisteredIgnored ==
    /\ [](\A id \in Ids : IsSome(pipelines[id]) => id \in registered_shaders)
    /\ [][\A id \in Ids :
            /\ RenderStateHotReload
            /\ HeadOk("shader", id)
            /\ id \notin registered_shaders
            => pipelines' = pipelines
         ]_vars

\* C12 witness: the last tick signalled the reload of an unregistered shader
\* while another shader has a pipeline.
C12_Witness ==
    \E id, other \in Ids :
        /\ frame_reloaded = Some(id)
        /\ id \notin registered_shaders
        /\ IsSome(get("shader", id))
        /\ IsSome(pipelines[other])

\* C13: between ticks, every pipeline is built from the module
\* ShaderAssets::get returns for its id.
C13_PipelineOfCurrentModule ==
    \A id \in Ids :
        IsSome(pipelines[id]) =>
            /\ IsSome(get("shader", id))
            /\ Unwrap(pipelines[id]).module = Unwrap(get("shader", id))

\* C13 witness: the module of a shader with a pipeline was replaced by one
\* compiled from rewritten source, and the pipeline is built from it.
C13_Witness ==
    \E id \in Ids :
        /\ IsSome(pipelines[id])
        /\ Unwrap(pipelines[id]).module.src > 0
        /\ Unwrap(pipelines[id]).module.gen > 1
        /\ Unwrap(pipelines[id]).module = Unwrap(get("shader", id))

\* the keys Batches::prepare built an instance buffer for
Prepared(insts, m) ==
    {key \in DOMAIN insts : key.material_id = m /\ IsSome(insts[key].buffer)}

\* the texture the material m names is materialized
TextureReady(m) ==
    /\ IsSome(get_texture_id(m))
    /\ IsSome(get("texture", Unwrap(get_texture_id(m))))

\* C14: the instance array of a key holds the instances batch_model was
\* called with for that key in this frame, in call order and with
\* duplicates; the instance buffer prepare builds for the key is that
\* sequence, and the key's draw has that buffer and its length as instance
\* count.
C14_InstanceRoundTrip ==
    /\ \A key \in KeySet :
          batched[key] # << >> =>
              key \in DOMAIN instances /\ instances[key].data = batched[key]
    /\ \A key \in DOMAIN instances :
          IsSome(instances[key].buffer) =>
              Unwrap(instances[key].buffer) = batched[key]
    /\ \A d \in draws :
          /\ d.instance_count = Len(batched[d.key])
          /\ d.instance_buffer = batched[d.key]

\* C14 witness: a key batched twice with the same instance was drawn.
C14_Witness ==
    /\ pc = "begin"
    /\ \E d \in draws :
          /\ d.instance_count = 2
          /\ d.instance_buffer[1] = d.instance_buffer[2]

\* C15: at the end of a frame every key with instances whose material is
\* known and whose mesh, texture and pipeline are ready has exactly one
\* draw, whatever the other keys of the frame are.
C15_ReadyKeysDrawn ==
    pc = "begin" =>
        \A key \in DOMAIN instances :
            ( /\ instances[key].data # << >>
              /\ IsSome(materials[key.material_id])
              /\ IsSome(get("mesh", key.mesh_id))
              /\ TextureReady(key.material_id)
              /\ IsSome(pipelines[Unwrap(get_shader_id(key.material_id))]) )
            => Cardinality({d \in draws : d.key = key}) = 1

\* C16 as stated: two draws of different meshes whose materials name the
\* same texture id use the same bind group.
C16_OneBindGroupPerTexture ==
    pc = "begin" =>
        \A d1, d2 \in draws :
            ( /\ d1.key.mesh_id # d2.key.mesh_id
              /\ get_texture_id(d1.key.material_id)
                    = get_texture_id(d2.key.material_id) )
            => d1.bind_group = d2.bind_group

\* C16 amended: the bind group of a material id is created once and never
\* replaced, and every draw of a key of that material uses it, so two keys
\* with different meshes and the same material share one bind group.
C16_OneBindGroupPerMaterial ==
    /\ [](\A d \in draws :
            /\ IsSome(mat_data[d.key.material_id])
            /\ d.bind_group = Unwrap(mat_data[d.key.material_id]).bind_group
            /\ d.bind_group.uniform_of = d.key.material_id)
    /\ [][\A m \in Ids :
            IsSome(mat_data[m]) =>
                /\ IsSome(mat_data'[m])
                /\ Unwrap(mat_data'[m]).bind_group
                      = Unwrap(mat_data[m]).bind_group
         ]_vars

\* C16 witness: two keys with different meshes and the same material were
\* drawn in one frame.
C16_Witness ==
    /\ pc = "begin"
    /\ \E d1, d2 \in draws :
          /\ d1.key.mesh_id # d2.key.mesh_id
          /\ d1.key.material_id = d2.key.material_id

\* C17: every draw uses a bind group built from the texture object
\* TextureAssets::get returns for the material's texture id.
C17_BindGroupOfCurrentTexture ==
    pc = "begin" =>
        \A d \in draws :
            TextureReady(d.key.material_id) =>
                d.bind_group.texture
                    = Unwrap(get("texture",
                                 Unwrap(get_texture_id(d.key.material_id))))

\* C18 as stated: prepare writes uniform bytes into the buffer of a material
\* only if the material had a buffer before and the bytes differ from the
\* bytes it holds.
C18_WriteOnlyIfChanged ==
    [][\A m \in Ids :
          RenderStateRender /\ uniform_writes'[m] > 0 =>
              /\ IsSome(mat_data[m])
              /\ Unwrap(mat_data[m]).buffer
                    # Unwrap(get_uniform_data_bytes(m))
      ]_vars

\* C18 amended: the MaterialData of a material id is created at most once,
\* by the first prepare that reaches a key of the material while its texture
\* is materialized; every other time prepare reaches such a key it writes
\* the material's current uniform bytes into the existing buffer, changed or
\* not; and prepare touches no other material.
C18_CreateOnceWriteAlways ==
    [][\A m \in Ids :
          /\ IsSome(mat_data[m]) =>
                /\ IsSome(mat_data'[m])
                /\ Unwrap(mat_data'[m]).bind_group
                      = Unwrap(mat_data[m]).bind_group
          /\ RenderStateRender =>
                LET n == IF TextureReady(m)
                         THEN Cardinality(Prepared(instances', m))
                         ELSE 0
                IN  IF n = 0
                    THEN mat_data'[m] = mat_data[m] /\ uniform_writes'[m] = 0
                    ELSE /\ IsSome(mat_data'[m])
                         /\ Unwrap(mat_data'[m]).buffer
                               = Unwrap(get_uniform_data_bytes(m))
                         /\ uniform_writes'[m]
                               = IF IsSome(mat_data[m]) THEN n ELSE n - 1
      ]_vars

\* C18 witness: in a frame after the one that created the MaterialData of a
\* material, prepare wrote the unchanged uniform bytes into its buffer.
C18_Witness ==
    /\ pc = "begin"
    /\ \E m \in Ids :
          /\ uniform_writes[m] > 0
          /\ \E key \in drawn_before : key.material_id = m

\* C19: begin_frame leaves no instance in any array and does not touch the
\* cached MaterialData; after it, the arrays, buffers and draws hold only
\* instances batched in the current frame.
C19_ClearEmptiesInstances ==
    /\ [](\A key \in DOMAIN instances :
            /\ \A i \in DOMAIN instances[key].data :
                  \E j \in DOMAIN batched[key] :
                      batched[key][j] = instances[key].data[i]
            /\ IsSome(instances[key].buffer) =>
                  Len(Unwrap(instances[key].buffer)) <= Len(batched[key]))
    /\ [][BeginFrame =>
            /\ \A key \in KeySet :
                  key \in DOMAIN instances' => instances'[key].data = << >>
            /\ mat_data' = mat_data
         ]_vars

\* C19 witness: a new frame has begun with a cached MaterialData and no
\* instances, after a frame that drew a key.
C19_Witness ==
    /\ pc = "script"
    /\ DOMAIN instances = {}
    /\ drawn_before # {}
    /\ \E m \in Ids : IsSome(mat_data[m])

\* C20: a key no instance was batched for in the current frame has no
\* instance buffer and no draw.
C20_NoInstancesNoDraw ==
    \A key \in KeySet :
        batched[key] = << >> =>
            /\ ~Drawn(key)
            /\ key \in DOMAIN instances => ~IsSome(instances[key].buffer)

\* C20 witness: a frame drew a key and not another one that was drawn in an
\* earlier frame and has no instance in this one.
C20_Witness ==
    /\ pc = "begin"
    /\ draws # {}
    /\ \E key \in drawn_before :
          /\ batched[key] = << >>
          /\ ~Drawn(key)
          /\ IsSome(get("mesh", key.mesh_id))
          /\ IsSome(mat_data[key.material_id])

\* a reload is accepted for registry r in this step: hot_reload submits a
\* job, or ShaderAssets::reloaded returns true
Accepted(r) ==
    \/ HotReload(r) /\ Len(pool') > Len(pool)
    \/ r = "shader" /\ \E id \in Ids : Reloaded(id) /\ reloaded(id).result

\* C21: a reload is accepted only when RELOAD_DEBOUNCE has elapsed since
\* last_reload, it sets last_reload to the current time, and last_reload
\* never goes back; so two accepted reloads of one registry are at least
\* RELOAD_DEBOUNCE apart and one hot_reload call submits at most one job.
C21_DebouncedReloads ==
    [][\A r \in Regs :
          /\ last_reload'[r] >= last_reload[r]
          /\ last_reload'[r] <= now'
          /\ Accepted(r) =>
                /\ now - last_reload[r] >= RELOAD_DEBOUNCE
                /\ last_reload'[r] = now
          /\ HotReload(r) => Len(pool') <= Len(pool) + 1
      ]_vars

\* C21 witness: a reload was accepted just now and the change of another
\* id, notified in the same window, is still waiting.
C21_Witness ==
    \E id, other \in Ids :
        /\ id # other
        /\ now = last_reload["shader"]
        /\ now > 0
        /\ IsSome(get("shader", id))
        /\ IsSome(get("shader", other))
        /\ InPool("shader", id) # {}
        /\ cache["shader"][other].reloaded

\* C22: App::update runs begin_frame, the script, hot_reload, then prepare
\* and render, in that order and in every frame: the position only moves
\* along that cycle, the script's add_model and load calls happen between
\* begin_frame and hot_reload, objects and pipelines are materialized only by
\* hot_reload (the pipeline from the module the shader registry installed in
\* the same call), and the bind groups, buffers and draws are made only
\* after it, each draw from the buffer prepare built in the same frame.
C22_FrameOrder ==
    [][/\ pc = "begin" => pc' = "script"
       /\ pc = "script" => pc' \in {"script", "hot_reload"}
       /\ pc = "hot_reload" => pc' \in {"hot_reload", "render"}
       /\ pc = "render" => pc' = "begin"
       /\ (requested' # requested \/ batched' # batched) /\ pc # "begin"
             => pc = "script" /\ pc' = "script"
       /\ (objs' # objs \/ pipelines' # pipelines
               \/ last_reload' # last_reload
               \/ frame_reloaded' # frame_reloaded)
             => /\ pc = "hot_reload" /\ pc' = "render"
                /\ \A id \in Ids :
                      pipelines'[id] # pipelines[id] =>
                          Unwrap(pipelines'[id]).module
                              = Unwrap(get("shader", id)')
       /\ (mat_data' # mat_data \/ uniform_writes' # uniform_writes
               \/ draws' # draws) /\ pc # "begin"
             => /\ pc = "render" /\ pc' = "begin"
                /\ \A d \in draws' :
                      /\ ~IsSome(instances[d.key].buffer)
                      /\ Some(d.instance_buffer) = instances'[d.key].buffer
      ]_vars

\* C22 witness: a second frame has run to its end and drew a key, with the
\* mesh or texture it uses materialized by a hot_reload.
C22_Witness ==
    /\ pc = "begin"
    /\ drawn_before # {}
    /\ \E d \in draws : d.mesh.gen >= 1 /\ d.bind_group.texture.gen >= 1

\* the job of (r, id) that completes in this step, if any
Completes(r, id) ==
    /\ Len(pool') = Len(pool) - 1
    /\ Cardinality(InPool(r, id))' = Cardinality(InPool(r, id)) - 1

\* C23: the job of a mesh whose geometry lacks normals or texture
\* coordinates sends an error for its id on the mesh channel.
C23_IncompleteMeshIsAnError ==
    [][\A id \in Ids :
          ( /\ Completes("mesh", id)
            /\ IsSome(cache_load("mesh", id))
            /\ Unwrap(cache_load("mesh", id)).kind = "incomplete" )
          => /\ Len(load_rx'["mesh"]) = Len(load_rx["mesh"]) + 1
             /\ load_rx'["mesh"][Len(load_rx'["mesh"])].id = id
             /\ ~load_rx'["mesh"][Len(load_rx'["mesh"])].ok
      ]_vars

\* C24: every job that completes sends exactly one message, for its id, on
\* the channel of its registry.
C24_OneMessagePerJob ==
    [][\A r \in Regs, id \in Ids :
          Completes(r, id) =>
              /\ Len(load_rx'[r]) = Len(load_rx[r]) + 1
              /\ load_rx'[r][Len(load_rx'[r])].id = id
      ]_vars

\* the content the registry holds for id is older than the cached asset
Stale(r, id) ==
    /\ IsSome(objs[r][id])
    /\ IsSome(cache[r][id].asset)
    /\ Unwrap(objs[r][id]).src < Unwrap(cache[r][id].asset).ver

\* C25: a drained successful result is applied whatever its age: when the
\* result of an older job arrives after the result of a newer one, the
\* object built from the older content replaces the newer one.
C25_OlderResultOverwrites ==
    [][\A r \in Regs, id \in Ids :
          HotReload(r) /\ HeadOk(r, id)
          => /\ IsSome(objs'[r][id])
             /\ Unwrap(objs'[r][id]).src = Head(load_rx[r]).src
      ]_vars

\* the registry holds content older than an object it has already held,
\* older than the file, and nothing is in flight or pending for the id
C25_Witness ==
    \E r \in active, id \in Ids :
        /\ Stale(r, id)
        /\ Unwrap(objs[r][id]).gen >= 2
        /\ InFlight(r, id) = 0
        /\ ~Changed(r, id)
        /\ Unwrap(cache[r][id].asset) = disk[r][id]
        /\ disk[r][id].kind = "ok"

\* what a registry owns on the main thread
Owned(r) ==
    << loaded[r], objs[r], last_reload[r],
       IF r = "shader" THEN frame_reloaded ELSE None >>

\* C26: a worker step leaves every registry's loaded set, object map,
\* frame_reloaded and debounce timestamp alone; it changes the cache only
\* by caching an asset that was absent and a channel only by appending at
\* most one message to the channel of its job's registry.  What a registry owns
\* changes only in a load or hot_reload call of that registry.
C26_WorkersOnlySend ==
    [][ /\ WorkerStep =>
            /\ UNCHANGED << loaded, objs, frame_reloaded, last_reload >>
            /\ \A r \in Regs, id \in Ids :
                 /\ cache'[r][id].pending = cache[r][id].pending
                 /\ cache'[r][id].reloaded = cache[r][id].reloaded
                 /\ IsSome(cache[r][id].asset)
                      => cache'[r][id].asset = cache[r][id].asset
            /\ \E r \in Regs :
                 /\ Len(load_rx'[r]) <= Len(load_rx[r]) + 1
                 /\ SubSeq(load_rx'[r], 1, Len(load_rx[r])) = load_rx[r]
                 /\ \A q \in Regs \ {r} : load_rx'[q] = load_rx[q]
        /\ \A r \in Regs :
             Owned(r)' # Owned(r)
             => \/ HotReload(r)
                \/ \E id \in Ids : Load(r, id)
      ]_vars

\* a job has sent an error and the id is still in `loaded`: only
\* hot_reload will remove it
C26_Witness ==
    \E r \in Tracked, id \in Ids :
        /\ load_rx[r] # << >>
        /\ ~load_rx[r][Len(load_rx[r])].ok
        /\ load_rx[r][Len(load_rx[r])].id = id
        /\ id \in loaded[r]
        /\ pool = << >>

\* C27: a registry maps an id to at most one object; a hot_reload call that
\* drains a successful result of id puts a new object, built from that
\* result, in the place of id's object and leaves the objects of all other
\* ids and of the other registries as they were; nothing else changes an
\* object map.
C27_ReplaceOneId ==
    /\ [](\A r \in Regs : DOMAIN objs[r] = Ids)
    /\ [][\A r \in Regs :
            /\ \A id \in Ids :
                 HotReload(r) /\ HeadOk(r, id)
                 => /\ IsSome(objs'[r][id])
                    /\ objs'[r][id] # objs[r][id]
                    /\ Unwrap(objs'[r][id]).src = Head(load_rx[r]).src
                    /\ \A other \in Ids \ {id} : objs'[r][other] = objs[r][other]
                    /\ \A q \in Regs \ {r} : objs'[q] = objs[q]
            /\ objs'[r] # objs[r]
                 => HotReload(r) /\ \E id \in Ids : HeadOk(r, id)
         ]_vars

\* an object of id was replaced while another id had its object
C27_Witness ==
    \E r \in active, id \in Ids, other \in Ids :
        /\ other # id
        /\ IsSome(objs[r][id])
        /\ Unwrap(objs[r][id]).gen >= 2
        /\ IsSome(objs[r][other])
        /\ Unwrap(objs[r][id]).src > Unwrap(objs[r][other]).src

\* C28: MaterialManager is a keyed store.  After add(key, material) every
\* read accessor returns that material under key, whether key was in use or
\* not; a write through get_mut_any(key) is what every read accessor
\* returns afterwards; neither changes what another key returns; a key
\* returns a material only after an add under it, and keeps returning one.
C28_KeyedStore ==
    [][\A key \in Ids :
        /\ \A sh \in Ids, tx \in Ids :
             Add(key, sh, tx)
             => /\ get_any(key)' = Some(SimpleMaterial(sh, tx))
                /\ get_shader_id(key)' = Some(sh)
                /\ get_texture_id(key)' = Some(tx)
                /\ get_uniform_data_bytes(key)'
                     = Some(write(SimpleMaterial(sh, tx).uniform))
                /\ \A other \in Ids \ {key} : get_any(other)' = get_any(other)
        /\ \A m \in Materials :
             Mutate(key, m)
             => /\ get_any(key)' = Some(m)
                /\ get_shader_id(key)' = Some(m.shader_id)
                /\ get_texture_id(key)' = Some(m.texture_id)
                /\ get_uniform_data_bytes(key)' = Some(write(m.uniform))
                /\ \A other \in Ids \ {key} : get_any(other)' = get_any(other)
        /\ \A m1 \in Materials, m2 \in Materials :
             write(m1.uniform) = write(m2.uniform) => m1.uniform = m2.uniform
        /\ ~IsSome(get_any(key)) /\ IsSome(get_any(key))'
             => \E sh \in Ids, tx \in Ids : Add(key, sh, tx)
        /\ ~IsSome(get_any(key))
             => /\ get_shader_id(key) = None
                /\ get_texture_id(key) = None
                /\ get_uniform_data_bytes(key) = None
        /\ IsSome(get_any(key)) => IsSome(get_any(key))'
      ]_vars

\* a material was written through the mutable accessor and read back, while
\* the other key was never added
C28_Witness ==
    \E key \in Ids, other \in Ids :
        /\ IsSome(get_any(key))
        /\ Unwrap(get_any(key)).uniform.color = MaxColor
        /\ Unwrap(get_uniform_data_bytes(key))[1] = MaxColor
        /\ get_any(other) = None
        /\ get_uniform_data_bytes(other) = None

\* C29: after a call of ShaderAssets::hot_reload, frame_reloaded is Some(id)
\* if the call drained a successful result of id and None if it drained an
\* error or nothing; nothing else changes it, and a shader's object changes
\* in exactly the steps that signal its id.
C29_SignalOfThisCall ==
    [][ /\ HotReload("shader")
           => /\ \A id \in Ids :
                   HeadOk("shader", id) => frame_reloaded' = Some(id)
              /\ (~\E id \in Ids : HeadOk("shader", id))
                   => frame_reloaded' = None
        /\ frame_reloaded' # frame_reloaded => HotReload("shader")
        /\ \A id \in Ids :
             objs'["shader"][id] # objs["shader"][id]
             <=> HotReload("shader") /\ frame_reloaded' = Some(id)
                   /\ HeadOk("shader", id)
      ]_vars

\* a signal was given and reset: a shader is materialized, the last call
\* drained the error of another shader and signals nothing
C29_Witness ==
    /\ "shader" \in active
    /\ frame_reloaded = None
    /\ \E id \in Ids, other \in Ids :
         /\ IsSome(objs["shader"][id])
         /\ ~IsSome(objs["shader"][other])
         /\ other \in requested["shader"]
         /\ other \notin loaded["shader"]
         /\ InFlight("shader", other) = 0

\* C30: once get(id) returns an object it returns one after every step, and
\* a hot_reload call that drains an error leaves every object of the
\* registry as it was.
C30_ReadinessMonotonic ==
    [][\A r \in Regs :
        /\ \A id \in Ids : IsSome(get(r, id)) => IsSome(get(r, id))'
        /\ (HotReload(r) /\ \E id \in Ids : HeadErr(r, id))
             => \A id \in Ids : get(r, id)' = get(r, id)
      ]_vars

\* the reload of a materialized id failed and was drained: the id is back
\* in Unrequested and its object is still there
C30_Witness ==
    \E r \in Tracked, id \in Ids :
        /\ r \in active
        /\ IsSome(get(r, id))
        /\ id \in requested[r]
        /\ id \notin loaded[r]
        /\ InFlight(r, id) = 0

\* a registered shader with a module and no pipeline
Missing(id) ==
    /\ id \in registered_shaders
    /\ IsSome(get("shader", id))
    /\ ~IsSome(pipelines[id])

\* C31: every registered shader id that has a module has a pipeline, at
\* every point of the frame, whether the id's job completed before or after
\* register_shader(id) ran.
C31_RegisteredHavePipelines ==
    \A id \in Ids : ~Missing(id)

\* the job of a shader has completed between the two statements of
\* load_shader, before the shader is registered, while the shader
\* registered by Bundle::new before its load has its pipeline
C31_Witness ==
    \E id \in Ids :
        /\ pc = registering(id)
        /\ id \notin registered_shaders
        /\ InChannel("shader", id) # {}
        /\ DEFAULT_SHADER \in registered_shaders
        /\ IsSome(pipelines[DEFAULT_SHADER])

\* hot_reload has seen the change of a materialized id
Flagged(r, id) == IsSome(objs[r][id]) /\ cache[r][id].reloaded

C33_ReloadOnlyMaterialized ==
    [][\A r \in Regs, id \in Ids :
        /\ (HotReload(r)
              /\ Cardinality(InPool(r, id))' > Cardinality(InPool(r, id)))
             => /\ IsSome(objs[r][id])
                /\ Changed(r, id)
                /\ now - last_reload[r] >= RELOAD_DEBOUNCE
                /\ Cardinality(InPool(r, id))' = Cardinality(InPool(r, id)) + 1
        /\ Cardinality(InPool(r, id))' > Cardinality(InPool(r, id))
             => HotReload(r) \/ Load(r, id)
      ]_vars

\* the change of an id whose first result is still in the channel has been
\* flagged, the window is open and polling has never submitted a job
C33_Witness ==
    \E r \in active, id \in Ids :
        /\ ~IsSome(objs[r][id])
        /\ cache[r][id].reloaded
        /\ now - last_reload[r] >= RELOAD_DEBOUNCE
        /\ InPool(r, id) = {}
        /\ InChannel(r, id) # {}
        /\ last_reload[r] = 0

\* a script changed and the debounce window of LuaState is open: this call
\* of update detects a reload
ScriptReload ==
    /\ now - lua.last_reload >= RELOAD_DEBOUNCE
    /\ \E id \in ScriptIds :
         lua.cache[id].reloaded \/ IsSome(lua.cache[id].pending)

\* C34: LuaState::update calls the update function unless the error flag
\* is set and no reload is detected; an error of the function sets the flag
\* and is logged in the call that sets it; with the flag set and no reload
\* the function is not called, nothing is logged and the flag stays; a
\* detected reload, and nothing else, clears the flag and executes the
\* entry point again before the function is called.
C34_ErrorLatched ==
    [][ /\ LuaUpdate =>
            /\ lua'.executed <=> ScriptReload
            /\ lua'.called <=> (~lua.update_got_error \/ ScriptReload)
            /\ (lua.update_got_error /\ ~ScriptReload)
                 => /\ lua'.update_got_error
                    /\ ~lua'.logged
                    /\ lua'.update_fn = lua.update_fn
            /\ lua'.called
                 => /\ lua'.update_got_error <=> update_fails(lua'.update_fn)
                    /\ lua'.logged <=> update_fails(lua'.update_fn)
            /\ ScriptReload
                 => lua'.update_fn
                      = load_entry_point(lua.update_fn,
                            IF IsSome(lua.cache[ENTRY_POINT].pending)
                            THEN Unwrap(lua.cache[ENTRY_POINT].pending)
                            ELSE Unwrap(lua.cache[ENTRY_POINT].asset))
        /\ lua'.update_got_error # lua.update_got_error => LuaUpdate
      ]_vars

\* a frame skipped by the latch: the flag is set, the function was not
\* called and nothing was logged
C34_Witness ==
    /\ lua.update_got_error
    /\ ~lua.called
    /\ ~lua.logged
    /\ ~lua.executed

\* the events of one key, of one button, in a queue, in the order they were
\* received (on_window_event and on_device_event push at the end)
KeyEvents(code, q) ==
    SelectSeq(q, LAMBDA e : e.type = "KeyboardInput" /\ e.code = code)
ButtonEvents(button, q) ==
    SelectSeq(q, LAMBDA e : e.type = "Button" /\ e.button = button)

\* C35: after Inputs::update the pressed state of every key and of every
\* mouse button that had an event queued is the state given by the last
\* event received for it.
C35_LastEventWins ==
    [][Redraw =>
         /\ \A code \in KeyCodes :
              LET es == KeyEvents(code, inputs.frame_window_events) IN
              es # << >>
                => (inputs'.keys_state[code]
                      <=> es[Len(es)].state = "Pressed")
         /\ \A button \in Buttons :
              LET es == ButtonEvents(button, inputs.frame_device_events) IN
              es # << >>
                => (inputs'.mouse_state[button]
                      <=> es[Len(es)].state = "Pressed")
      ]_vars

\* C36: in the frame an update makes, a key or button is just pressed
\* exactly if it is pressed after the update and was not pressed before it;
\* between two updates the pressed states change only when the focus is
\* lost. So a key seen pressed in two frames in a row, repeats or not, is
\* just pressed in the first of them only.
C36_EdgeTriggered ==
    [][ /\ Redraw =>
            /\ \A code \in KeyCodes :
                 key_just_pressed(code)'
                   <=> (key_pressed(code)' /\ ~key_pressed(code))
            /\ \A button \in Buttons :
                 mouse_just_pressed(button)'
                   <=> (mouse_pressed(button)' /\ ~mouse_pressed(button))
        /\ ( \/ inputs'.keys_state # inputs.keys_state
             \/ inputs'.mouse_state # inputs.mouse_state
             \/ inputs'.last_keys_state # inputs.last_keys_state
             \/ inputs'.last_mouse_state # inputs.last_mouse_state )
             => Redraw \/ Focus(FALSE)
      ]_vars

\* after an update: a key seen pressed in the frame before and still held
\* is pressed but not just pressed, while the other key, which went down
\* since, is just pressed
C36_Witness ==
    /\ key_pressed("KeyR")
    /\ ~key_just_pressed("KeyR")
    /\ "KeyR" \in device.keys
    /\ key_just_pressed("KeyW")
    /\ inputs.frame_window_events = << RedrawRequested >>
    /\ inputs.frame_device_events = << >>

\* C37: a key or button reported pressed (a just-pressed one is pressed)
\* had a press event received after the focus was lost last.
C37_FocusLossReleases ==
    /\ \A code \in KeyCodes :
         key_pressed(code) => code \in device.key_presses
    /\ \A button \in Buttons :
         mouse_pressed(button) => button \in device.button_presses

====
